---- MODULE Spec2Model ----
(***************************************************************************)
(* The PDF streaming proxy of BookMark: the range parser, the in-memory    *)
(* chunk caches (PDFChunkCache of the book-scoped route, PDFCache of the   *)
(* global route) and their cache keys.                                     *)
(*                                                                         *)
(* JavaScript strings are sequences of one-character strings, ArrayBuffers *)
(* are sequences of byte values, a Map is the sequence of its entries in   *)
(* insertion order (the order Map.entries() iterates in).                  *)
(***************************************************************************)
EXTENDS Integers, Sequences, FiniteSets

VARIABLES
  variant,      \* which route module this process runs: "chunk" or "global"
  cache,        \* the Map<string, CacheEntry>, in insertion order
  currentSize,  \* the cache's currentSize field
  now,          \* Date.now() at the latest cache operation
  held,         \* the buffer object the caller's variable refers to
  lastSet,      \* the latest completed set: its key, bytes and time
  last,         \* the latest cache operation and what it observed
  call,         \* arguments of the pure function under check
  ret,          \* its results
  pc            \* "cache", or "call" / "done" for a pure function

vars == <<variant, cache, currentSize, now, held, lastSet, last, call, ret, pc>>

cacheVars == <<variant, cache, currentSize, now, held, lastSet, last>>

(***************************************************************************)
(* Bounds of the model.                                                    *)
(***************************************************************************)
MaxTail == 4        \* characters of a Range header after its prefix
MaxTotal == 3       \* largest contentLength handed to the parser
MaxRange == 11      \* largest byte offset of a range handed to a cache key
MaxTime == 2        \* the clock stops here
MaxAccess == 3      \* a hit is taken only below this accessCount
MaxDrift == 1       \* a set is taken only while the size sum exceeds currentSize by at most this

\* The caches' limits, scaled down (the code has 50 MiB and 5 minutes).
maxSize == 2

ttl == 1

\* the sizes below which a body is looked at as an error page, scaled down
\* from 100 and 1000 bytes
tinyBody == 6

smallBody == 8

\* the number of requests served one after the other
MaxRequests == 2

\* checkRateLimit: the largest maxRequests and windowMs handed to it, and the
\* number of calls made
MaxLimit == 2

MaxWindow == 1

MaxCalls == 4

(***************************************************************************)
(* Strings.                                                                *)
(***************************************************************************)
Digits == <<"0", "1", "2", "3", "4", "5", "6", "7", "8", "9">>

IsDigit(c) == \E i \in 1..10 : Digits[i] = c

DigitVal(c) == (CHOOSE i \in 1..10 : Digits[i] = c) - 1

IsSpace(c) == c = " "

Max(a, b) == IF a >= b THEN a ELSE b

\* String.prototype.startsWith
startsWith(s, p) == Len(s) >= Len(p) /\ SubSeq(s, 1, Len(p)) = p

\* String.prototype.endsWith
endsWith(s, p) == Len(s) >= Len(p) /\ SubSeq(s, Len(s) - Len(p) + 1, Len(s)) = p

\* String.prototype.slice(k) for k >= 0
slice(s, k) == SubSeq(s, k + 1, Len(s))

\* String.prototype.split(sep) for a one-character separator: never empty,
\* split("") is [""].
RECURSIVE split(_, _)
split(s, sep) ==
  IF \A i \in 1..Len(s) : s[i] # sep
  THEN <<s>>
  ELSE LET i == CHOOSE j \in 1..Len(s) :
                  s[j] = sep /\ \A m \in 1..(j - 1) : s[m] # sep
       IN <<SubSeq(s, 1, i - 1)>> \o split(SubSeq(s, i + 1, Len(s)), sep)

\* String.prototype.trim
trim(s) ==
  IF \A i \in 1..Len(s) : IsSpace(s[i])
  THEN <<>>
  ELSE LET a == CHOOSE j \in 1..Len(s) :
                  ~IsSpace(s[j]) /\ \A m \in 1..(j - 1) : IsSpace(s[m])
           b == CHOOSE j \in 1..Len(s) :
                  ~IsSpace(s[j]) /\ \A m \in (j + 1)..Len(s) : IsSpace(s[m])
       IN SubSeq(s, a, b)

\* The value undefined, where a string was expected (a destructured element
\* that does not exist). It is no character, so it equals no string.
undefined == <<"undefined">>

NaN == [nan |-> TRUE, v |-> 0]

Num(n) == [nan |-> FALSE, v |-> n]

RECURSIVE DecVal(_)
DecVal(ds) ==
  IF ds = <<>> THEN 0
  ELSE 10 * DecVal(SubSeq(ds, 1, Len(ds) - 1)) + DigitVal(ds[Len(ds)])

\* parseInt(s, 10): leading white space is skipped, then an optional sign,
\* then the longest run of digits; whatever follows is ignored; NaN when
\* there is no digit.
parseInt(s) ==
  LET ws == CHOOSE n \in 0..Len(s) :
              /\ \A i \in 1..n : IsSpace(s[i])
              /\ n = Len(s) \/ ~IsSpace(s[n + 1])
      t == SubSeq(s, ws + 1, Len(s))
      signed == t # <<>> /\ t[1] \in {"+", "-"}
      sign == IF signed /\ t[1] = "-" THEN -1 ELSE 1
      u == IF signed THEN Tail(t) ELSE t
      nd == CHOOSE n \in 0..Len(u) :
              /\ \A i \in 1..n : IsDigit(u[i])
              /\ n = Len(u) \/ ~IsDigit(u[n + 1])
  IN IF nd = 0 THEN NaN ELSE Num(sign * DecVal(SubSeq(u, 1, nd)))

\* Number to string, for the non-negative integers of a RangeRequest.
RECURSIVE NumToStr(_)
NumToStr(n) ==
  IF n < 10 THEN <<Digits[n + 1]>>
  ELSE NumToStr(n \div 10) \o <<Digits[(n % 10) + 1]>>

(***************************************************************************)
(* The range parser.                                                       *)
(***************************************************************************)
null == [isNull |-> TRUE]

RangeRequest(s, e, t) == [start |-> s, end |-> e, total |-> t]

BytesEq == <<"b", "y", "t", "e", "s", "=">>

\* book-scoped route: the final validation of parseRange
rangeOrNull_Strict(start, end, contentLength) ==
  IF start < 0 \/ end >= contentLength \/ start >= end
  THEN null
  ELSE RangeRequest(start, end, contentLength)

rangeOrNull_EndInclusive(start, end, contentLength) ==
  IF start < 0 \/ end > contentLength \/ start > end
  THEN null
  ELSE RangeRequest(start, end, contentLength)

rangeOrNull_Unordered(start, end, contentLength) ==
  IF start < 0 \/ end >= contentLength
  THEN null
  ELSE RangeRequest(start, end, contentLength)

rangeOrNull(start, end, contentLength) ==
  IF start < 0 \/ end >= contentLength \/ start > end
  THEN null
  ELSE RangeRequest(start, end, contentLength)

\* book-scoped route: the first byte of a suffix range
suffixStart_Unclamped(contentLength, suffix) == contentLength - suffix

suffixStart(contentLength, suffix) == Max(0, contentLength - suffix)

\* book-scoped route
parseRange(rangeHeader, contentLength) ==
  IF ~startsWith(rangeHeader, BytesEq) THEN null
  ELSE
    LET raw == slice(rangeHeader, 6)
        parts == split(raw, ",")
    IN IF Len(parts) # 1 THEN null
       ELSE
         LET sp == split(trim(parts[1]), "-")
             startStr == sp[1]
             endStr == IF Len(sp) >= 2 THEN sp[2] ELSE undefined
             suffix == parseInt(endStr)
             pstart == parseInt(startStr)
             pend == parseInt(endStr)
         IN IF startStr = <<>>
            THEN IF suffix.nan THEN null
                 ELSE rangeOrNull(suffixStart(contentLength, suffix.v),
                                  contentLength - 1, contentLength)
            ELSE IF endStr = <<>>
            THEN IF pstart.nan THEN null
                 ELSE rangeOrNull(pstart.v, contentLength - 1, contentLength)
            ELSE IF pstart.nan \/ pend.nan THEN null
                 ELSE rangeOrNull(pstart.v, pend.v, contentLength)

\* global route
parseRangeHeader(rangeHeader, contentLength) ==
  IF ~startsWith(rangeHeader, BytesEq) THEN null
  ELSE
    LET ranges == split(slice(rangeHeader, 6), ",")
    IN IF Len(ranges) # 1 THEN null
       ELSE
         LET range == trim(ranges[1])
             sp == split(range, "-")
             startStr == sp[1]
             endStr == IF Len(sp) >= 2 THEN sp[2] ELSE undefined
             suffix == parseInt(endStr)
             pstart == parseInt(startStr)
             pend == parseInt(endStr)
             checked(start, end) ==
               IF start < 0 \/ end >= contentLength \/ start > end
               THEN null
               ELSE RangeRequest(start, end, contentLength)
         IN IF startStr = <<>>
            THEN IF suffix.nan THEN null
                 ELSE checked(Max(0, contentLength - suffix.v), contentLength - 1)
            ELSE IF endStr = <<>>
            THEN IF pstart.nan THEN null
                 ELSE checked(pstart.v, contentLength - 1)
            ELSE IF pstart.nan \/ pend.nan THEN null
                 ELSE checked(pstart.v, pend.v)

(***************************************************************************)
(* Cache keys.                                                             *)
(***************************************************************************)
Colon == <<":">>

Dash == <<"-">>

Full == <<"f", "u", "l", "l">>

\* PDFChunkCache.key with the range left out of the key
key_IgnoresRange(bookId, url, range) == bookId \o Colon \o url \o Colon \o Full

\* PDFChunkCache.key; range is null where the code passes undefined
key(bookId, url, range) ==
  IF range # null
  THEN bookId \o Colon \o url \o Colon
         \o NumToStr(range.start) \o Dash \o NumToStr(range.end)
  ELSE bookId \o Colon \o url \o Colon \o Full

\* PDFCache.generateKey
generateKey(url, range) ==
  IF range # null
  THEN url \o Colon \o NumToStr(range.start) \o Dash \o NumToStr(range.end)
  ELSE url

(***************************************************************************)
(* The caches. A CacheEntry carries, beside the code's fields, its key k   *)
(* and two history fields the code never reads: setAt, the time of the set *)
(* that made it, and orig, the bytes that set was given.                   *)
(***************************************************************************)
Infinity == -1

\* a < b for a finite a and a b that may be Infinity
Less(a, b) == b = Infinity \/ a < b

IndexOf(c, k) ==
  IF \E i \in 1..Len(c) : c[i].k = k
  THEN CHOOSE i \in 1..Len(c) : c[i].k = k
  ELSE 0

Remove(c, i) == SubSeq(c, 1, i - 1) \o SubSeq(c, i + 1, Len(c))

\* Map.prototype.delete
Delete(c, k) == IF IndexOf(c, k) = 0 THEN c ELSE Remove(c, IndexOf(c, k))

\* Map.prototype.set: an existing key keeps its place in the iteration order
Put(c, e) ==
  IF IndexOf(c, e.k) = 0 THEN Append(c, e)
  ELSE [c EXCEPT ![IndexOf(c, e.k)] = e]

RECURSIVE SumSizes(_)
SumSizes(c) == IF c = <<>> THEN 0 ELSE Head(c).size + SumSizes(Tail(c))

\* a non-null ArrayBuffer result, told apart from null
ArrayBuffer(data) == [bytes |-> data]

\* ArrayBuffer.prototype.slice(0): a new buffer with the same bytes
Copy(data) == [i \in 1..Len(data) |-> data[i]]

NewEntry(k, data, t) ==
  [k |-> k, data |-> Copy(data), timestamp |-> t, accessCount |-> 1,
   lastAccessed |-> t, size |-> Len(data), setAt |-> t, orig |-> data]

\* a hit that also renews the entry's timestamp (a sliding ttl)
Hit_Sliding(c, i, t) ==
  [c EXCEPT ![i].accessCount = c[i].accessCount + 1, ![i].lastAccessed = t,
            ![i].timestamp = t]

\* get's bookkeeping on a hit: accessCount++, lastAccessed = Date.now()
Hit(c, i, t) ==
  [c EXCEPT ![i].accessCount = c[i].accessCount + 1, ![i].lastAccessed = t]

\* ---- PDFChunkCache (book-scoped route) ----
\* expiry already at exactly ttl
PDFChunkCache_isExpired_AtTtl(entry, t) == t - entry.timestamp >= ttl

PDFChunkCache_isExpired(entry, t) == t - entry.timestamp > ttl

\* a scan that ignores accessCount (plain least-recently-used)
RECURSIVE PDFChunkCache_scan_LRU(_, _, _)
PDFChunkCache_scan_LRU(c, i, best) ==
  IF i > Len(c) THEN best
  ELSE LET v == c[i]
       IN IF best.smallestAccess = Infinity \/ v.lastAccessed < best.oldestTime
          THEN PDFChunkCache_scan_LRU(c, i + 1,
                 [oldestKey |-> v.k, oldestTime |-> v.lastAccessed,
                  smallestAccess |-> v.accessCount])
          ELSE PDFChunkCache_scan_LRU(c, i + 1, best)

\* the scan of evictLRU from entry i on; best is the candidate so far
RECURSIVE PDFChunkCache_scan(_, _, _)
PDFChunkCache_scan(c, i, best) ==
  IF i > Len(c) THEN best
  ELSE LET v == c[i]
       IN IF \/ Less(v.accessCount, best.smallestAccess)
             \/ (v.accessCount = best.smallestAccess
                 /\ v.lastAccessed < best.oldestTime)
          THEN PDFChunkCache_scan(c, i + 1,
                 [oldestKey |-> v.k, oldestTime |-> v.lastAccessed,
                  smallestAccess |-> v.accessCount])
          ELSE PDFChunkCache_scan(c, i + 1, best)

PDFChunkCache_evictLRU(c, cs, t) ==
  LET best == PDFChunkCache_scan(c, 1,
                [oldestKey |-> <<>>, oldestTime |-> t, smallestAccess |-> Infinity])
  IN IF best.oldestKey # <<>>
     THEN [cache |-> Delete(c, best.oldestKey),
           currentSize |-> cs - c[IndexOf(c, best.oldestKey)].size]
     ELSE [cache |-> c, currentSize |-> cs]

\* an if in place of the while: at most one eviction
PDFChunkCache_evictWhile_Once(c, cs, size, t, steps) ==
  IF cs + size > maxSize /\ Len(c) > 0
  THEN LET r == PDFChunkCache_evictLRU(c, cs, t)
       IN [cache |-> r.cache, currentSize |-> r.currentSize,
           steps |-> Append(steps, [before |-> c, after |-> r.cache])]
  ELSE [cache |-> c, currentSize |-> cs, steps |-> steps]

\* the while loop of set; steps collects each evictLRU call's map before and after
RECURSIVE PDFChunkCache_evictWhile(_, _, _, _, _)
PDFChunkCache_evictWhile(c, cs, size, t, steps) ==
  IF cs + size > maxSize /\ Len(c) > 0
  THEN LET r == PDFChunkCache_evictLRU(c, cs, t)
       IN PDFChunkCache_evictWhile(r.cache, r.currentSize, size, t,
            Append(steps, [before |-> c, after |-> r.cache]))
  ELSE [cache |-> c, currentSize |-> cs, steps |-> steps]

PDFChunkCache_get(c, cs, t, k) ==
  LET i == IndexOf(c, k)
  IN IF i = 0 \/ PDFChunkCache_isExpired(c[i], t)
     THEN [cache |-> Delete(c, k),
           currentSize |-> IF i # 0 THEN cs - c[i].size ELSE cs,
           res |-> null,
           shared |-> FALSE]
     ELSE [cache |-> Hit(c, i, t),
           currentSize |-> cs,
           res |-> ArrayBuffer(c[i].data),
           shared |-> TRUE]     \* return entry.data: the stored buffer itself

PDFChunkCache_set(c, cs, t, k, data) ==
  LET size == Len(data)
      i == IndexOf(c, k)
      cs1 == IF i # 0 THEN cs - c[i].size ELSE cs
      r == PDFChunkCache_evictWhile(c, cs1, size, t, <<>>)
  IN [cache |-> Put(r.cache, NewEntry(k, data, t)),
      currentSize |-> r.currentSize + size,
      steps |-> r.steps,
      shared |-> FALSE]         \* data.slice(0): the entry holds a copy

\* ---- PDFCache (global route) ----
\* expiry already at exactly ttl
PDFCache_isExpired_AtTtl(entry, t) == t - entry.timestamp >= ttl

PDFCache_isExpired(entry, t) == t - entry.timestamp > ttl

RECURSIVE PDFCache_scan(_, _, _)
PDFCache_scan(c, i, best) ==
  IF i > Len(c) THEN best
  ELSE LET entry == c[i]
       IN IF \/ Less(entry.accessCount, best.smallestAccessCount)
             \/ (entry.accessCount = best.smallestAccessCount
                 /\ entry.lastAccessed < best.oldestTime)
          THEN PDFCache_scan(c, i + 1,
                 [oldestKey |-> entry.k, oldestTime |-> entry.lastAccessed,
                  smallestAccessCount |-> entry.accessCount])
          ELSE PDFCache_scan(c, i + 1, best)

PDFCache_evictLRU(c, cs, t) ==
  LET best == PDFCache_scan(c, 1,
                [oldestKey |-> <<>>, oldestTime |-> t,
                 smallestAccessCount |-> Infinity])
  IN IF best.oldestKey # <<>>
     THEN [cache |-> Delete(c, best.oldestKey),
           currentSize |-> cs - c[IndexOf(c, best.oldestKey)].size]
     ELSE [cache |-> c, currentSize |-> cs]

RECURSIVE PDFCache_evictWhile(_, _, _, _, _)
PDFCache_evictWhile(c, cs, size, t, steps) ==
  IF cs + size > maxSize /\ Len(c) > 0
  THEN LET r == PDFCache_evictLRU(c, cs, t)
       IN PDFCache_evictWhile(r.cache, r.currentSize, size, t,
            Append(steps, [before |-> c, after |-> r.cache]))
  ELSE [cache |-> c, currentSize |-> cs, steps |-> steps]

\* cleanup: every expired entry is deleted, the first one first
RECURSIVE PDFCache_cleanup(_, _, _)
PDFCache_cleanup(c, cs, t) ==
  IF \A i \in 1..Len(c) : ~PDFCache_isExpired(c[i], t)
  THEN [cache |-> c, currentSize |-> cs]
  ELSE LET i == CHOOSE j \in 1..Len(c) :
                  /\ PDFCache_isExpired(c[j], t)
                  /\ \A m \in 1..(j - 1) : ~PDFCache_isExpired(c[m], t)
       IN PDFCache_cleanup(Remove(c, i), cs - c[i].size, t)

PDFCache_get(c0, cs0, t, k) ==
  LET cl == PDFCache_cleanup(c0, cs0, t)
      c == cl.cache
      cs == cl.currentSize
      i == IndexOf(c, k)
  IN IF i = 0 \/ PDFCache_isExpired(c[i], t)
     THEN [cache |-> Delete(c, k),
           currentSize |-> IF i # 0 THEN cs - c[i].size ELSE cs,
           res |-> null,
           shared |-> FALSE]
     ELSE [cache |-> Hit(c, i, t),
           currentSize |-> cs,
           res |-> ArrayBuffer(c[i].data),
           shared |-> TRUE]     \* return entry.data: the stored buffer itself

PDFCache_set(c0, cs0, t, k, data) ==
  LET cl == PDFCache_cleanup(c0, cs0, t)
      c == cl.cache
      cs == cl.currentSize
      size == Len(data)
      i == IndexOf(c, k)
      cs1 == IF i # 0 THEN cs - c[i].size ELSE cs
      r == PDFCache_evictWhile(c, cs1, size, t, <<>>)
  IN [cache |-> Put(r.cache, NewEntry(k, data, t)),
      currentSize |-> r.currentSize + size,
      steps |-> r.steps,
      shared |-> FALSE]         \* data.slice(): the entry holds a copy

(***************************************************************************)
(* The cache as the route handlers use it: get and set on the module's one *)
(* cache object, and the clock.                                            *)
(***************************************************************************)
none == [isNone |-> TRUE]

noOp == [op |-> "none"]

BookA == <<"b", "1">>

UrlA == <<"h", "t", "t", "p", "s", ":", "/", "/", "h", "/", "a", ".", "p", "d", "f">>

BookIds == {BookA}

Urls == {UrlA}

\* the ranges of the requests: none, or one of two ranges of a 2-byte resource
CacheRanges == {null, RangeRequest(0, 1, 2)}

\* the keys of those requests in each cache
ChunkKeys == {key(b, u, r) : b \in BookIds, u \in Urls, r \in CacheRanges}

GlobalKeys == {generateKey(u, r) : u \in Urls, r \in CacheRanges}

Fill(n, b) == [i \in 1..n |-> b]

\* the buffers handed to set: every length from 1 to one above maxSize (the
\* routes never store an empty body)
Bufs == {Fill(n, 1) : n \in 1..(maxSize + 1)}

Init ==
  /\ variant \in {"chunk", "global"}
  /\ cache = <<>>
  /\ currentSize = 0
  /\ now = 0
  /\ held = none
  /\ lastSet = none
  /\ last = noOp
  /\ call = none
  /\ ret = none
  /\ pc = "cache"

Drift == SumSizes(cache) - currentSize

\* the values Date.now() may have at the next operation
Times == {t \in now..(now + ttl + 1) : t <= MaxTime}

\* a get on k that hits is taken only below MaxAccess
MayGet(k, t) ==
  LET i == IndexOf(cache, k)
  IN i # 0 => (cache[i].accessCount < MaxAccess \/ t - cache[i].timestamp > ttl)

\* total size of the entries of c that are past their ttl at time t
RECURSIVE ExpiredSize(_, _)
ExpiredSize(c, t) ==
  IF c = <<>> THEN 0
  ELSE (IF t - Head(c).setAt > ttl THEN Head(c).size ELSE 0) + ExpiredSize(Tail(c), t)

AfterSet(r, k, data, t) ==
  /\ cache' = r.cache
  /\ currentSize' = r.currentSize
  /\ now' = t
  /\ held' = IF r.shared THEN [obj |-> "entry", k |-> k]
             ELSE [obj |-> "caller", bytes |-> data]
  /\ lastSet' = [k |-> k, buf |-> data, now |-> t]
  /\ last' = [op |-> "set", k |-> k, buf |-> data, evicted |-> Len(r.steps)]
  /\ UNCHANGED <<variant, call, ret, pc>>

AfterGet(r, k, t) ==
  /\ cache' = r.cache
  /\ currentSize' = r.currentSize
  /\ now' = t
  /\ held' = IF r.res = null THEN none
             ELSE IF r.shared THEN [obj |-> "entry", k |-> k]
             ELSE [obj |-> "caller", bytes |-> r.res.bytes]
  /\ last' = [op |-> "get", k |-> k, res |-> r.res,
              had |-> IF IndexOf(cache, k) # 0
                      THEN cache[IndexOf(cache, k)].accessCount ELSE 0]
  /\ UNCHANGED <<variant, lastSet, call, ret, pc>>

\* chunkCache.set(bookId, fileUrl, buf, range || undefined)
ChunkSet ==
  /\ pc = "cache" /\ variant = "chunk"
  /\ Drift <= MaxDrift
  /\ \E k \in ChunkKeys, data \in Bufs, t \in Times :
       AfterSet(PDFChunkCache_set(cache, currentSize, t, k, data), k, data, t)

\* chunkCache.get(bookId, fileUrl, range || undefined)
ChunkGet ==
  /\ pc = "cache" /\ variant = "chunk"
  /\ \E k \in ChunkKeys, t \in Times :
       /\ MayGet(k, t)
       /\ AfterGet(PDFChunkCache_get(cache, currentSize, t, k), k, t)

\* pdfCache.set(targetUrl, responseData, range || undefined)
GlobalSet ==
  /\ pc = "cache" /\ variant = "global"
  /\ Drift <= MaxDrift
  /\ \E k \in GlobalKeys, data \in Bufs, t \in Times :
       AfterSet(PDFCache_set(cache, currentSize, t, k, data), k, data, t)

\* pdfCache.get(targetUrl, range || undefined)
GlobalGet ==
  /\ pc = "cache" /\ variant = "global"
  /\ \E k \in GlobalKeys, t \in Times :
       /\ MayGet(k, t)
       /\ AfterGet(PDFCache_get(cache, currentSize, t, k), k, t)

Next == ChunkSet \/ ChunkGet \/ GlobalSet \/ GlobalGet

Spec == Init /\ [][Next]_vars

\* The caller overwrites byte i of the buffer its variable refers to (a
\* Uint8Array view of it): its own buffer, or the one a cache entry holds.
Mutate ==
  /\ pc = "cache"
  /\ held # none
  /\ \/ /\ held.obj = "caller"
        /\ \E i \in 1..Len(held.bytes) :
             /\ held.bytes[i] # 0
             /\ held' = [held EXCEPT !.bytes[i] = 0]
        /\ UNCHANGED <<cache>>
     \/ /\ held.obj = "entry"
        /\ LET j == IndexOf(cache, held.k)
           IN \E i \in 1..Len(cache[j].data) :
                /\ cache[j].data[i] # 0
                /\ cache' = [cache EXCEPT ![j].data[i] = 0]
        /\ UNCHANGED <<held>>
  /\ last' = [op |-> "mutate"]
  /\ UNCHANGED <<variant, currentSize, now, lastSet, call, ret, pc>>

NextAlias == Next \/ Mutate

SpecAlias == Init /\ [][NextAlias]_vars

(***************************************************************************)
(* Claims about the caches (Spec, SpecAlias). In the state after a step,   *)
(* last names the operation that step performed and now the time it ran    *)
(* at; so in a step, last' and now' are its operation and its time, and    *)
(* the unprimed variables are the cache it found.                          *)
(***************************************************************************)
Entry(c, k) == c[IndexOf(c, k)]

Has(c, k) == IndexOf(c, k) # 0

\* C1: currentSize equals the sum of the size fields of the resident
\* entries, after any sequence of get and set operations.
C1_SizeIsSum == currentSize = SumSizes(cache)

\* C2: after a set, currentSize <= maxSize unless the buffer just inserted
\* is by itself larger than maxSize.
C2_WithinCap ==
  last.op = "set" => (currentSize <= maxSize \/ Len(last.buf) > maxSize)

C2_Witness ==
  /\ last.op = "set"
  /\ last.evicted >= 1
  /\ Len(last.buf) <= maxSize
  /\ currentSize = SumSizes(cache)
  /\ currentSize = maxSize

\* the evictLRU calls a set of (k, data) at time t makes on cache c with
\* counter cs: the map before and after each
SetSteps(c, cs, t, k, data) ==
  IF variant = "chunk"
  THEN PDFChunkCache_set(c, cs, t, k, data).steps
  ELSE PDFCache_set(c, cs, t, k, data).steps

\* entry e is no better kept than entry f: fewer accesses, or as many and
\* not accessed later
Lowest(e, f) ==
  \/ e.accessCount < f.accessCount
  \/ (e.accessCount = f.accessCount /\ e.lastAccessed <= f.lastAccessed)

\* an evictLRU call that turned map b into map a removed exactly one entry,
\* a lowest one
EvictedLowest(b, a) ==
  /\ Len(b) > 0
  /\ \E j \in 1..Len(b) :
       /\ a = Remove(b, j)
       /\ \A m \in 1..Len(b) : Lowest(b[j], b[m])

AllEvictedLowest(steps) ==
  \A n \in 1..Len(steps) : EvictedLowest(steps[n].before, steps[n].after)

\* C3: every eviction step of a set removes exactly one entry, one with the
\* smallest accessCount and, among those, the oldest lastAccessed.
C3_EvictsLowest ==
  [][(last'.op = "set" /\ last'.evicted > 0) =>
       AllEvictedLowest(SetSteps(cache, currentSize, now', last'.k, last'.buf))]_vars

\* a set evicted one of several entries that differ in accessCount, and the
\* entry with more accesses is still resident
C3_Witness ==
  /\ last.op = "set"
  /\ last.evicted = 1
  /\ \E i \in 1..Len(cache) : cache[i].k # last.k /\ cache[i].accessCount > 1

\* C4: a get of k after set(k, buf), with no set in between and the clock
\* not more than ttl past the set, returns exactly the bytes of buf.
C4_RoundTrip ==
  (/\ last.op = "get"
   /\ lastSet # none
   /\ lastSet.k = last.k
   /\ now - lastSet.now <= ttl)
  => last.res = ArrayBuffer(lastSet.buf)

C4_Witness ==
  /\ last.op = "get"
  /\ lastSet # none
  /\ lastSet.k = last.k
  /\ now = lastSet.now + ttl
  /\ last.res = ArrayBuffer(lastSet.buf)
  /\ Len(lastSet.buf) > 1

\* what a get of an entry past its ttl takes off currentSize: in PDFCache,
\* cleanup() drops every entry past its ttl, not just the one looked up
Dropped(c, k, t) ==
  IF variant = "chunk" THEN Entry(c, k).size ELSE ExpiredSize(c, t)

\* C5 as amended: a get of a resident k later than ttl after the set that
\* made the entry returns null, removes the entry and takes its size off
\* currentSize (PDFCache: with the sizes of all other entries past their
\* ttl), however often it was hit; at exactly ttl after the set it hits.
C5_AbsoluteTtl ==
  [][(last'.op = "get" /\ Has(cache, last'.k)) =>
       LET e == Entry(cache, last'.k)
       IN /\ now' > e.setAt + ttl =>
               /\ last'.res = null
               /\ ~Has(cache', last'.k)
               /\ currentSize' = currentSize - Dropped(cache, last'.k, now')
          /\ now' = e.setAt + ttl => last'.res = ArrayBuffer(e.data)]_vars

\* an entry that had been hit was found past its ttl by a get
C5_Witness ==
  /\ last.op = "get"
  /\ last.had > 1
  /\ last.res = null
  /\ ~Has(cache, last.k)

\* C5 as claimed: the expired get takes exactly that entry's size off
\* currentSize, in both caches.
C5_AsClaimed ==
  [][(last'.op = "get" /\ Has(cache, last'.k)) =>
       LET e == Entry(cache, last'.k)
       IN /\ now' > e.setAt + ttl =>
               /\ last'.res = null
               /\ ~Has(cache', last'.k)
               /\ currentSize' = currentSize - e.size
          /\ now' = e.setAt + ttl => last'.res = ArrayBuffer(e.data)]_vars

\* C6: whatever the caller does to the buffer it passed to set or got from
\* get, a hit returns the bytes its entry was set with.
C6_Isolated ==
  (last.op = "get" /\ last.res # null)
  => last.res = ArrayBuffer(Entry(cache, last.k).orig)

(***************************************************************************)
(* Pure functions under check: Init draws the arguments, one step applies  *)
(* the function.                                                           *)
(***************************************************************************)
HdrAlphabet == {"0", "1", "2", "-", ",", " ", "x"}

Tails == UNION {[1..n -> HdrAlphabet] : n \in 0..MaxTail}

Prefixes == {BytesEq, <<"B", "y", "t", "e", "s", "=">>, <<>>}

Headers == {p \o t : p \in Prefixes, t \in Tails}

IdleCache ==
  /\ variant = "chunk"
  /\ cache = <<>>
  /\ currentSize = 0
  /\ now = 0
  /\ held = none
  /\ lastSet = none
  /\ last = noOp

InitParse ==
  /\ IdleCache
  /\ call \in [fn : {"parseRange", "parseRangeHeader"},
               rangeHeader : Headers,
               contentLength : 1..MaxTotal]
  /\ ret = none
  /\ pc = "call"

ParseRange ==
  /\ pc = "call"
  /\ call.fn = "parseRange"
  /\ ret' = parseRange(call.rangeHeader, call.contentLength)
  /\ pc' = "done"
  /\ UNCHANGED <<call, cacheVars>>

ParseRangeHeader ==
  /\ pc = "call"
  /\ call.fn = "parseRangeHeader"
  /\ ret' = parseRangeHeader(call.rangeHeader, call.contentLength)
  /\ pc' = "done"
  /\ UNCHANGED <<call, cacheVars>>

NextParse == ParseRange \/ ParseRangeHeader

SpecParse == InitParse /\ [][NextParse]_vars

(***************************************************************************)
(* Claims about the range parser (SpecParse).                              *)
(***************************************************************************)
AllDigits(s) == s # <<>> /\ \A i \in 1..Len(s) : IsDigit(s[i])

Parsed == pc = "done" /\ call.fn \in {"parseRange", "parseRangeHeader"}

HasPrefix == startsWith(call.rangeHeader, BytesEq)

\* the header's text after "bytes="
Spec_ == slice(call.rangeHeader, 6)

Before(i) == SubSeq(Spec_, 1, i - 1)

After(i) == SubSeq(Spec_, i + 1, Len(Spec_))

\* the header is bytes=N-M with decimal N and M, the dash at position i
Explicit(i) == Spec_[i] = "-" /\ AllDigits(Before(i)) /\ AllDigits(After(i))

\* C8: a header bytes=N-M with decimal N, M and 0 <= N <= M < totalLength
\* parses to {start: N, end: M, total: totalLength}, in both parsers.
C8_ExplicitRange ==
  (Parsed /\ HasPrefix) =>
    \A i \in 1..Len(Spec_) :
      (/\ Explicit(i)
       /\ DecVal(Before(i)) <= DecVal(After(i))
       /\ DecVal(After(i)) < call.contentLength)
      => ret = RangeRequest(DecVal(Before(i)), DecVal(After(i)), call.contentLength)

C8_Witness ==
  /\ Parsed
  /\ call.fn = "parseRangeHeader"
  /\ call.rangeHeader = BytesEq \o <<"1", "-", "2">>
  /\ call.contentLength = 3
  /\ ret = RangeRequest(1, 2, 3)

\* C9: bytes=N- with 0 <= N < totalLength parses to N..totalLength-1;
\* bytes=-K with 0 < K <= totalLength parses to totalLength-K..totalLength-1;
\* bytes=-K with K > totalLength parses to 0..totalLength-1.
C9_OpenEnded ==
  (Parsed /\ HasPrefix /\ Spec_ # <<>>) =>
    LET n == Len(Spec_)
        cl == call.contentLength
    IN /\ (/\ Spec_[n] = "-"
           /\ AllDigits(Before(n))
           /\ DecVal(Before(n)) < cl)
          => ret = RangeRequest(DecVal(Before(n)), cl - 1, cl)
       /\ (/\ Spec_[1] = "-"
           /\ AllDigits(After(1))
           /\ 0 < DecVal(After(1))
           /\ DecVal(After(1)) <= cl)
          => ret = RangeRequest(cl - DecVal(After(1)), cl - 1, cl)
       /\ (/\ Spec_[1] = "-"
           /\ AllDigits(After(1))
           /\ DecVal(After(1)) > cl)
          => ret = RangeRequest(0, cl - 1, cl)

C9_Witness ==
  /\ Parsed
  /\ call.fn = "parseRange"
  /\ call.rangeHeader = BytesEq \o <<"-", "1", "2">>
  /\ call.contentLength = 3
  /\ ret = RangeRequest(0, 2, 3)

\* C10: the parser returns null for a header that does not start with
\* bytes=, for a header with a comma after bytes=, for bytes=N-M with N > M
\* and for bytes=N-M with M >= totalLength.
C10_Rejected ==
  Parsed =>
    /\ ~HasPrefix => ret = null
    /\ (HasPrefix /\ \E i \in 1..Len(Spec_) : Spec_[i] = ",") => ret = null
    /\ HasPrefix =>
         \A i \in 1..Len(Spec_) :
           (/\ Explicit(i)
            /\ \/ DecVal(Before(i)) > DecVal(After(i))
               \/ DecVal(After(i)) >= call.contentLength)
           => ret = null

C10_Witness ==
  /\ Parsed
  /\ call.fn = "parseRange"
  /\ call.rangeHeader = BytesEq \o <<"1", "-", "2">>
  /\ call.contentLength = 2
  /\ ret = null

\* a component of a range: no text, or decimal digits only
Numeric(s) == s = <<>> \/ AllDigits(s)

\* C11: a header bytes=S-E whose start text S, or whose text E after the
\* first dash, is non-empty and not purely decimal digits parses to null.
C11_NonNumericRejected ==
  (Parsed /\ HasPrefix) =>
    \A i \in 1..Len(Spec_) :
      (/\ Spec_[i] = "-"
       /\ \A m \in 1..(i - 1) : Spec_[m] # "-"
       /\ ~(Numeric(Before(i)) /\ Numeric(After(i))))
      => ret = null

\* C12: every RangeRequest the parser returns has 0 <= start <= end < total
\* and total = totalLength.
C12_RangeInvariant ==
  (Parsed /\ ret # null) =>
    /\ 0 <= ret.start
    /\ ret.start <= ret.end
    /\ ret.end < ret.total
    /\ ret.total = call.contentLength

\* a range came back for a header whose end is left to the parser
C12_Witness ==
  /\ Parsed
  /\ call.fn = "parseRangeHeader"
  /\ call.rangeHeader = BytesEq \o <<"1", "-">>
  /\ call.contentLength = 2
  /\ ret = RangeRequest(1, 1, 2)

(***************************************************************************)
(* Cache keys under check (SpecKey): Init draws two requests for one       *)
(* resource, one step derives the cache key of each.                       *)
(***************************************************************************)
\* the ranges a parser can return for a resource of MaxRange + 1 bytes
KeyRanges ==
  {null} \cup {RangeRequest(s, e, MaxRange + 1) : s \in 0..MaxRange, e \in 0..MaxRange}

InitKey ==
  /\ IdleCache
  /\ call \in {c \in [fn : {"key", "generateKey"}, bookId : BookIds, url : Urls,
                      range1 : KeyRanges, range2 : KeyRanges] :
                 \A r \in {c.range1, c.range2} : r # null => r.start <= r.end}
  /\ ret = none
  /\ pc = "call"

\* chunkCache's key for each of the two requests
Key ==
  /\ pc = "call"
  /\ call.fn = "key"
  /\ ret' = [key1 |-> key(call.bookId, call.url, call.range1),
             key2 |-> key(call.bookId, call.url, call.range2)]
  /\ pc' = "done"
  /\ UNCHANGED <<call, cacheVars>>

\* pdfCache's key for each of the two requests
GenerateKey ==
  /\ pc = "call"
  /\ call.fn = "generateKey"
  /\ ret' = [key1 |-> generateKey(call.url, call.range1),
             key2 |-> generateKey(call.url, call.range2)]
  /\ pc' = "done"
  /\ UNCHANGED <<call, cacheVars>>

NextKey == Key \/ GenerateKey

SpecKey == InitKey /\ [][NextKey]_vars

(***************************************************************************)
(* Claims about the cache keys (SpecKey).                                  *)
(***************************************************************************)
Keyed == pc = "done" /\ call.fn \in {"key", "generateKey"}

\* two requests ask for the same bytes: both the full file, or the same
\* start and end
SameRange(r1, r2) ==
  IF r1 = null \/ r2 = null THEN r1 = r2
  ELSE r1.start = r2.start /\ r1.end = r2.end

\* C7: for one (scope, url) the same range always gives the same key, the
\* full-file key differs from every ranged key, and ranges that differ in
\* start or end give different keys.
C7_KeysDistinct ==
  Keyed => (ret.key1 = ret.key2 <=> SameRange(call.range1, call.range2))

\* a full and a ranged request, or two ranges whose digits run together the
\* same way (1-11 and 11-11), got different keys
C7_Witness ==
  /\ Keyed
  /\ ret.key1 # ret.key2
  /\ \/ call.range1 = null /\ call.range2 # null
     \/ /\ call.range1 # null /\ call.range2 # null
        /\ call.range1.start = 1 /\ call.range1.end = 11
        /\ call.range2.start = 11 /\ call.range2.end = 11

(***************************************************************************)
(* URLs and their validation.                                              *)
(***************************************************************************)
Upper == <<"A", "B", "C", "D", "E", "F", "G", "H", "I", "J", "K", "L", "M", "N", "O", "P", "Q", "R", "S", "T", "U", "V", "W", "X", "Y", "Z">>

Lower == <<"a", "b", "c", "d", "e", "f", "g", "h", "i", "j", "k", "l", "m", "n", "o", "p", "q", "r", "s", "t", "u", "v", "w", "x", "y", "z">>

IsUpper(c) == \E i \in 1..26 : Upper[i] = c

IsLetter(c) == \E i \in 1..26 : Upper[i] = c \/ Lower[i] = c

\* String.prototype.toLowerCase
toLowerCase(s) ==
  [i \in 1..Len(s) |->
     IF IsUpper(s[i]) THEN Lower[CHOOSE j \in 1..26 : Upper[j] = s[i]] ELSE s[i]]

\* the length of the longest prefix of s that has no character of stops
UpTo(s, stops) ==
  CHOOSE n \in 0..Len(s) :
    /\ \A i \in 1..n : s[i] \notin stops
    /\ n = Len(s) \/ s[n + 1] \in stops

\* the longest run of slashes s starts with
Slashes(s) ==
  CHOOSE n \in 0..Len(s) :
    /\ \A i \in 1..n : s[i] = "/"
    /\ n = Len(s) \/ s[n + 1] # "/"

Https == <<"h", "t", "t", "p", "s", ":">>

DotPdf == <<".", "p", "d", "f">>

\* new URL(url) for an absolute URL: threw (no scheme, or no host), or the
\* protocol, hostname and pathname of the URL
URL(url) ==
  LET n == UpTo(url, {":"})
      scheme == SubSeq(url, 1, n)
      rest == SubSeq(url, n + 2, Len(url))
      auth == SubSeq(rest, Slashes(rest) + 1, Len(rest))
      h == UpTo(auth, {"/", "?", "#"})
      tail == SubSeq(auth, h + 1, Len(auth))
      path == SubSeq(tail, 1, UpTo(tail, {"?", "#"}))
  IN IF n = Len(url) \/ n = 0 \/ ~IsLetter(url[1]) \/ h = 0
     THEN [threw |-> TRUE]
     ELSE [threw |-> FALSE,
           protocol |-> toLowerCase(scheme) \o <<":">>,
           hostname |-> toLowerCase(SubSeq(auth, 1, h)),
           pathname |-> IF path = <<>> THEN <<"/">> ELSE path]

\* book-scoped route
validateSupabasePdfUrl(url) ==
  LET u == URL(url)
  IN IF u.threw THEN FALSE
     ELSE IF u.protocol # Https THEN FALSE
     ELSE IF ~endsWith(toLowerCase(u.pathname), DotPdf) THEN FALSE
     ELSE TRUE

\* global route
validateUrl(url) ==
  LET parsedUrl == URL(url)
  IN IF parsedUrl.threw THEN FALSE
     ELSE IF parsedUrl.protocol # Https THEN FALSE
     ELSE IF \/ parsedUrl.hostname = <<"l", "o", "c", "a", "l", "h", "o", "s", "t">>
             \/ startsWith(parsedUrl.hostname, <<"1", "2", "7", ".">>)
             \/ startsWith(parsedUrl.hostname, <<"1", "9", "2", ".", "1", "6", "8", ".">>)
             \/ startsWith(parsedUrl.hostname, <<"1", "0", ".">>)
             \/ startsWith(parsedUrl.hostname, <<"1", "7", "2", ".">>)
          THEN FALSE
     ELSE IF ~endsWith(toLowerCase(parsedUrl.pathname), DotPdf) THEN FALSE
     ELSE TRUE

(***************************************************************************)
(* The GET handlers: requests, upstream replies and responses. A body is   *)
(* the sequence of its bytes; a Headers object is a function from the      *)
(* names it has to their values.                                           *)
(***************************************************************************)
\* String.prototype.includes
includes(s, sub) ==
  \E i \in 0..(Len(s) - Len(sub)) : SubSeq(s, i + 1, i + Len(sub)) = sub

\* the bytes of '%PDF'
PdfSignature == <<37, 80, 68, 70>>

\* the bytes of 'undefined', 'error' and 'not found'
TextUndefined == <<117, 110, 100, 101, 102, 105, 110, 101, 100>>

TextError == <<101, 114, 114, 111, 114>>

TextNotFound == <<110, 111, 116, 32, 102, 111, 117, 110, 100>>

\* ArrayBuffer.prototype.slice(0, n)
sliceTo(buf, n) == SubSeq(buf, 1, IF Len(buf) < n THEN Len(buf) ELSE n)

NoHeaders == [n \in {} |-> <<>>]

\* Headers.prototype.set
HSet(h, name, value) ==
  [n \in DOMAIN h \cup {name} |-> IF n = name THEN value ELSE h[n]]

\* Headers.prototype.has
Has_(h, name) == name \in DOMAIN h

\* `bytes ${range.start}-${range.end}/${range.total}`
ContentRange(range) ==
  <<"b", "y", "t", "e", "s", " ">> \o NumToStr(range.start) \o Dash
    \o NumToStr(range.end) \o <<"/">> \o NumToStr(range.total)

\* a Range header that gives the total for the end
ForwardRange_ToTotal(range) ==
  BytesEq \o NumToStr(range.start) \o Dash \o NumToStr(range.total)

\* `bytes=${range.start}-${range.end}`
ForwardRange(range) ==
  BytesEq \o NumToStr(range.start) \o Dash \o NumToStr(range.end)

\* new Response(body, {status, headers}); hit tells a response built from a
\* cached buffer
Response(status, headers, body, hit) ==
  [status |-> status, headers |-> headers, body |-> body, hit |-> hit]

\* a response with a text body, which the model leaves out
TextResponse(status) == Response(status, NoHeaders, <<>>, FALSE)

\* the errors fetch rejects with
MsgFetchFailed == <<"f", "e", "t", "c", "h", " ", "f", "a", "i", "l", "e", "d">>

MsgTimeout == <<"T", "h", "e", " ", "o", "p", "e", "r", "a", "t", "i", "o", "n", " ", "w", "a", "s", " ", "a", "b", "o", "r", "t", "e", "d", " ", "d", "u", "e", " ", "t", "o", " ", "t", "i", "m", "e", "o", "u", "t">>

MsgAborted == <<"T", "h", "i", "s", " ", "o", "p", "e", "r", "a", "t", "i", "o", "n", " ", "w", "a", "s", " ", "a", "b", "o", "r", "t", "e", "d">>

WordFetch == <<"f", "e", "t", "c", "h">>

WordInvalidPdf == <<"I", "n", "v", "a", "l", "i", "d", " ", "P", "D", "F">>

\* AbortSignal.timeout(ms) aborts with a TimeoutError DOMException; a runtime
\* that aborts it the older way reports an AbortError. A network failure is
\* a TypeError.
TimeoutErrors ==
  {[name |-> "TimeoutError", message |-> MsgTimeout],
   [name |-> "AbortError", message |-> MsgAborted]}

NetworkErrors == {[name |-> "TypeError", message |-> MsgFetchFailed]}

\* book-scoped route: the catch clause of GET
ChunkCatch(err) ==
  IF err.name = "AbortError" THEN TextResponse(504) ELSE TextResponse(500)

\* global route: the catch clause of GET
GlobalCatch(error) ==
  IF error.name = "AbortError" THEN TextResponse(504)
  ELSE IF includes(error.message, WordFetch) THEN TextResponse(502)
  ELSE IF includes(error.message, WordInvalidPdf) THEN TextResponse(422)
  ELSE TextResponse(500)

\* Headers.prototype.get / URLSearchParams.prototype.get, where the caller
\* only tests the result for truth or takes a default: the empty string
\* stands for null
Get(h, name) == IF name \in DOMAIN h THEN h[name] ELSE <<>>

\* Response.ok
Ok(upstream) == upstream.status >= 200 /\ upstream.status <= 299

\* the upstream headers the book-scoped route copies
ChunkCopied == {"content-type", "content-length", "content-range", "etag", "last-modified"}

\* the upstream headers the global route and the plain route copy
GlobalCopied ==
  {"content-type", "content-length", "accept-ranges", "content-range",
   "etag", "last-modified", "cache-control"}

\* upstream.headers.forEach(...): the headers of names that h has, set on to
CopyHeaders(to, h, names) ==
  [n \in DOMAIN to \cup (DOMAIN h \cap names) |->
     IF n \in DOMAIN h \cap names THEN h[n] ELSE to[n]]

\* book-scoped route: the response built from a cached buffer
ChunkHit(range, cached) ==
  LET h0 == HSet(HSet(HSet(NoHeaders, "content-type", "application/pdf"),
                      "accept-ranges", "bytes"),
                 "cache-control", "public, max-age=300")
  IN IF range # null
     THEN Response(206,
            HSet(HSet(h0, "content-range", ContentRange(range)),
                 "content-length", NumToStr(range.end - range.start + 1)),
            cached.bytes, TRUE)
     ELSE Response(200, HSet(h0, "content-length", NumToStr(Len(cached.bytes))),
            cached.bytes, TRUE)

\* global route: the response built from a cached buffer
GlobalHit(range, cachedData, stats) ==
  LET h0 == HSet(HSet(HSet(HSet(NoHeaders, "content-type", "application/pdf"),
                           "cache-control", "public, max-age=300"),
                      "x-cache", "HIT"),
                 "x-cache-stats", stats)
  IN IF range # null
     THEN Response(206,
            HSet(HSet(HSet(h0, "content-range", ContentRange(range)),
                      "content-length", NumToStr(range.end - range.start + 1)),
                 "accept-ranges", "bytes"),
            cachedData.bytes, TRUE)
     ELSE Response(200,
            HSet(h0, "content-length", NumToStr(Len(cachedData.bytes))),
            cachedData.bytes, TRUE)

\* PDFCache.getStats
getStats(c, cs) == [size |-> Len(c), memoryUsage |-> cs, maxSize |-> maxSize]

\* what a step of a handler leaves: the cache, the number of cache sets it
\* made and the response
Outcome(c, cs, sets, response) ==
  [cache |-> c, currentSize |-> cs, sets |-> sets, ret |-> response]

\* a GET that caches the body before it has looked at it
ChunkFinish_SetFirst(c, cs, t, bookId, fileUrl, range, upstream) ==
  LET buf == upstream.body
      r == PDFChunkCache_set(c, cs, t, key(bookId, fileUrl, range), buf)
  IN IF ~Ok(upstream)
     THEN Outcome(c, cs, 0, TextResponse(upstream.status))
     ELSE IF Len(buf) = 0
     THEN Outcome(r.cache, r.currentSize, 0, TextResponse(502))
     ELSE IF /\ range = null
             /\ sliceTo(buf, 4) # PdfSignature
             /\ Len(buf) < smallBody
     THEN Outcome(r.cache, r.currentSize, 0, TextResponse(422))
     ELSE Outcome(r.cache, r.currentSize, 1, Response(upstream.status, NoHeaders, buf, FALSE))

\* book-scoped route, after the upstream GET: what is cached and answered
ChunkFinish(c, cs, t, bookId, fileUrl, range, upstream) ==
  LET buf == upstream.body
      r == PDFChunkCache_set(c, cs, t, key(bookId, fileUrl, range), buf)
      headers == CopyHeaders(
                   HSet(HSet(NoHeaders, "cache-control", "public, max-age=300"),
                        "accept-ranges", "bytes"),
                   upstream.headers, ChunkCopied)
  IN IF ~Ok(upstream)
     THEN Outcome(c, cs, 0, TextResponse(upstream.status))
     ELSE IF Len(buf) = 0
     THEN Outcome(c, cs, 0, TextResponse(502))
     ELSE IF /\ range = null
             /\ sliceTo(buf, 4) # PdfSignature
             /\ Len(buf) < smallBody
     THEN Outcome(c, cs, 0, TextResponse(422))
     ELSE Outcome(r.cache, r.currentSize, 1,
            IF range # null /\ upstream.status = 206
            THEN Response(206, headers, buf, FALSE)
            ELSE Response(upstream.status, headers, buf, FALSE))

\* global route, after the upstream GET: what is cached and answered
GlobalFinish(c, cs, t, targetUrl, range, upstream) ==
  LET responseData == upstream.body
      r == PDFCache_set(c, cs, t, generateKey(targetUrl, range), responseData)
      resHeaders ==
        HSet(HSet(HSet(CopyHeaders(NoHeaders, upstream.headers, GlobalCopied),
                       "cache-control", "public, max-age=300"),
                  "x-cache", "MISS"),
             "x-cache-stats", getStats(r.cache, r.currentSize))
  IN IF ~Ok(upstream)
     THEN Outcome(c, cs, 0, TextResponse(upstream.status))
     ELSE IF Len(responseData) = 0
     THEN Outcome(c, cs, 0, TextResponse(502))
     ELSE IF /\ Len(responseData) < tinyBody
             /\ \/ responseData = TextUndefined
                \/ includes(responseData, TextError)
                \/ includes(responseData, TextNotFound)
     THEN Outcome(c, cs, 0, TextResponse(404))
     ELSE IF /\ range = null
             /\ sliceTo(responseData, 4) # PdfSignature
             /\ Len(responseData) < smallBody
     THEN Outcome(c, cs, 0, TextResponse(422))
     ELSE Outcome(r.cache, r.currentSize, 1,
            IF range # null /\ upstream.status = 206
            THEN Response(206, resHeaders, responseData, FALSE)
            ELSE Response(upstream.status, resHeaders, responseData, FALSE))

\* plain route: the upstream response passed through
PlainFinish(upstream) ==
  LET copied == CopyHeaders(NoHeaders, upstream.headers, GlobalCopied)
      resHeaders == IF ~Has_(copied, "cache-control")
                    THEN HSet(copied, "cache-control", "public, max-age=3600")
                    ELSE copied
  IN Response(upstream.status, resHeaders, upstream.body, FALSE)

\* global route
optimizeRange(range, contentLength) ==
  RangeRequest(range.start, range.end, contentLength)

\* fetch(url, {method, headers}): one upstream call
Fetch(method, url, headers) == [method |-> method, url |-> url, headers |-> headers]

\* Where a handler stands after a run from one await to the next: at the
\* await of "head" or "get", or "done" with a response. range is its parsed
\* range, fetches the upstream calls it has made so far, sets the cache sets,
\* probedAt the time of its cache get (-1: none yet).
Step(at, c, cs, range, fetches, sets, probedAt, response) ==
  [pc |-> at, cache |-> c, currentSize |-> cs, range |-> range,
   fetches |-> fetches, sets |-> sets, probedAt |-> probedAt, ret |-> response]

Done(c, cs, range, fetches, probedAt, response) ==
  Step("done", c, cs, range, fetches, 0, probedAt, response)

\* a GET that goes to its upstream GET with no HEAD before it
ChunkStart_GetFirst(c, cs, req) ==
  LET fileUrl == Get(req.params, "url")
  IN IF fileUrl = <<>> THEN Done(c, cs, null, <<>>, -1, TextResponse(400))
     ELSE IF ~validateSupabasePdfUrl(fileUrl)
     THEN Done(c, cs, null, <<>>, -1, TextResponse(400))
     ELSE Step("get", c, cs, null, <<Fetch("GET", fileUrl, NoHeaders)>>, 0, -1, none)

\* book-scoped route: GET up to the HEAD fetch
ChunkStart(c, cs, req) ==
  LET fileUrl == Get(req.params, "url")
  IN IF fileUrl = <<>> THEN Done(c, cs, null, <<>>, -1, TextResponse(400))
     ELSE IF ~validateSupabasePdfUrl(fileUrl)
     THEN Done(c, cs, null, <<>>, -1, TextResponse(400))
     ELSE Step("head", c, cs, null, <<Fetch("HEAD", fileUrl, NoHeaders)>>, 0, -1, none)

\* a GET that asks for the HEAD a second time when the first is refused
ChunkAfterHead_Retry(c, cs, t, req, fetches, head) ==
  IF ~Ok(head) /\ Len(fetches) < 2
  THEN Step("head", c, cs, null,
            Append(fetches, Fetch("HEAD", Get(req.params, "url"), NoHeaders)),
            0, -1, none)
  ELSE Done(c, cs, null, fetches, -1, TextResponse(502))

\* book-scoped route: GET from the HEAD response to the upstream GET fetch
ChunkAfterHead(c, cs, t, req, fetches, head) ==
  LET fileUrl == Get(req.params, "url")
      cl == Get(head.headers, "content-length")
      contentLength == parseInt(IF cl = <<>> THEN <<"0">> ELSE cl)
      rangeHeader == Get(req.headers, "range")
      range == IF rangeHeader # <<>>
               THEN parseRange(rangeHeader, contentLength.v) ELSE null
      g == PDFChunkCache_get(c, cs, t, key(req.bookId, fileUrl, range))
      forwardHeaders == IF range # null
                        THEN HSet(NoHeaders, "range", ForwardRange(range))
                        ELSE NoHeaders
  IN IF ~Ok(head) THEN Done(c, cs, null, fetches, -1, TextResponse(502))
     ELSE IF contentLength.nan \/ contentLength.v = 0
     THEN Done(c, cs, null, fetches, -1, TextResponse(502))
     ELSE IF g.res # null
     THEN Done(g.cache, g.currentSize, range, fetches, t, ChunkHit(range, g.res))
     ELSE Step("get", g.cache, g.currentSize, range,
               Append(fetches, Fetch("GET", fileUrl, forwardHeaders)), 0, t, none)

\* a probe that also looks for ranged requests in the cache
GlobalProbe_Ranged(c, cs, t, targetUrl, range, fetches) ==
  LET g == PDFCache_get(c, cs, t, generateKey(targetUrl, range))
      forwardHeaders == IF range # null
                        THEN HSet(NoHeaders, "range", ForwardRange(range))
                        ELSE NoHeaders
  IN IF g.res # null
     THEN Done(g.cache, g.currentSize, range, fetches, t,
               GlobalHit(range, g.res, getStats(g.cache, g.currentSize)))
     ELSE Step("get", g.cache, g.currentSize, range,
               Append(fetches, Fetch("GET", targetUrl, forwardHeaders)), 0, t, none)

\* global route: the cache probe and what follows it up to the GET fetch
GlobalProbe(c, cs, t, targetUrl, range, fetches) ==
  LET g == PDFCache_get(c, cs, t, generateKey(targetUrl, range))
      probed == range = null
      c1 == IF probed THEN g.cache ELSE c
      cs1 == IF probed THEN g.currentSize ELSE cs
      forwardHeaders == IF range # null
                        THEN HSet(NoHeaders, "range", ForwardRange(range))
                        ELSE NoHeaders
  IN IF probed /\ g.res # null
     THEN Done(c1, cs1, range, fetches, t, GlobalHit(range, g.res, getStats(c1, cs1)))
     ELSE Step("get", c1, cs1, range,
               Append(fetches, Fetch("GET", targetUrl, forwardHeaders)), 0,
               IF probed THEN t ELSE -1, none)

\* global route: GET up to its first fetch
GlobalStart(c, cs, t, req) ==
  LET targetUrl == Get(req.params, "url")
      rangeHeader == Get(req.headers, "range")
  IN IF targetUrl = <<>> THEN Done(c, cs, null, <<>>, -1, TextResponse(400))
     ELSE IF ~validateUrl(targetUrl)
     THEN Done(c, cs, null, <<>>, -1, TextResponse(400))
     ELSE IF rangeHeader # <<>>
     THEN Step("head", c, cs, null, <<Fetch("HEAD", targetUrl, NoHeaders)>>, 0, -1, none)
     ELSE GlobalProbe(c, cs, t, targetUrl, null, <<>>)

\* a global GET that serves the whole file when the Range header does not parse
GlobalAfterHead_FullFile(c, cs, t, req, fetches, headResponse) ==
  LET targetUrl == Get(req.params, "url")
      cl == Get(headResponse.headers, "content-length")
      contentLength == parseInt(IF cl = <<>> THEN <<"0">> ELSE cl)
      parsed == parseRangeHeader(Get(req.headers, "range"), contentLength.v)
  IN IF ~Ok(headResponse) THEN Done(c, cs, null, fetches, -1, TextResponse(502))
     ELSE IF contentLength.v = 0
     THEN Done(c, cs, null, fetches, -1, TextResponse(502))
     ELSE IF parsed = null
     THEN GlobalProbe(c, cs, t, targetUrl, null, fetches)
     ELSE GlobalProbe(c, cs, t, targetUrl, optimizeRange(parsed, contentLength.v), fetches)

\* global route: GET from the HEAD response to the upstream GET fetch; the
\* content-length header is a digit string when present
GlobalAfterHead(c, cs, t, req, fetches, headResponse) ==
  LET targetUrl == Get(req.params, "url")
      cl == Get(headResponse.headers, "content-length")
      contentLength == parseInt(IF cl = <<>> THEN <<"0">> ELSE cl)
      parsed == parseRangeHeader(Get(req.headers, "range"), contentLength.v)
  IN IF ~Ok(headResponse) THEN Done(c, cs, null, fetches, -1, TextResponse(502))
     ELSE IF contentLength.v = 0
     THEN Done(c, cs, null, fetches, -1, TextResponse(502))
     ELSE IF parsed = null
     THEN Done(c, cs, null, fetches, -1, TextResponse(416))
     ELSE GlobalProbe(c, cs, t, targetUrl, optimizeRange(parsed, contentLength.v), fetches)

\* plain route: GET up to its fetch; fetch rejects at once, with no network
\* call, when targetUrl is no URL, and nothing catches that
PlainStart(c, cs, req) ==
  LET targetUrl == Get(req.params, "url")
      range == Get(req.headers, "range")
      forwardHeaders == IF range # <<>> THEN HSet(NoHeaders, "range", range)
                        ELSE NoHeaders
  IN IF targetUrl = <<>> THEN Done(c, cs, null, <<>>, -1, TextResponse(400))
     ELSE IF URL(targetUrl).threw
     THEN Done(c, cs, null, <<>>, -1, TextResponse(500))
     ELSE Step("get", c, cs, null, <<Fetch("GET", targetUrl, forwardHeaders)>>, 0, -1, none)

(***************************************************************************)
(* The GET handlers at work (SpecGet): requests are served one after the   *)
(* other; each action runs a handler from one await to the next.           *)
(* last is the request served before the one in call, when that one filled  *)
(* the cache.                                                              *)
(***************************************************************************)
UrlHttp == <<"h", "t", "t", "p", ":", "/", "/", "h", "/", "a", ".", "p", "d", "f">>

UrlTxt == <<"h", "t", "t", "p", "s", ":", "/", "/", "h", "/", "a", ".", "t", "x", "t">>

UrlQuery == <<"h", "t", "t", "p", "s", ":", "/", "/", "h", "/", "a", "?", ".", "p", "d", "f">>

UrlPrivate == <<"h", "t", "t", "p", "s", ":", "/", "/", "1", "0", ".", "0", ".", "0", ".", "1", "/", "a", ".", "P", "D", "F">>

UrlRelative == <<"a", ".", "p", "d", "f">>

\* the url parameter of a request, when it has one
ReqUrls == {UrlA, UrlHttp, UrlTxt, UrlQuery, UrlPrivate, UrlRelative}

\* the Range header of a request, when it has one
ReqRanges == {BytesEq \o <<"0", "-", "1">>, BytesEq \o <<"x">>}

Requests ==
  [bookId : BookIds,
   params : {NoHeaders} \cup {HSet(NoHeaders, "url", u) : u \in ReqUrls},
   headers : {NoHeaders} \cup {HSet(NoHeaders, "range", r) : r \in ReqRanges}]

\* a fetch that resolved with a response, and one that rejected
Resolved(status, headers, body) ==
  [threw |-> FALSE, status |-> status, headers |-> headers, body |-> body]

Rejected(error) == [threw |-> TRUE, error |-> error]

\* what the upstream answers a HEAD with
HeadReplies ==
  {Resolved(200, h, <<>>) :
     h \in {NoHeaders} \cup {HSet(NoHeaders, "content-length", n) : n \in {<<"0">>, <<"5">>}}}
  \cup {Resolved(404, NoHeaders, <<>>)}
  \cup {Rejected(e) : e \in TimeoutErrors \cup NetworkErrors}

\* a body starting with the signature
PdfBody == PdfSignature \o <<45>>

\* the bodies the upstream sends: none, a document, an error text, two bytes
\* of a document, and smallBody bytes that are no document
Bodies == {<<>>, PdfBody, TextError, Fill(2, 120), Fill(smallBody, 120)}

\* what the upstream answers a GET for range with (null: the whole file)
GetReplies(range) ==
  {Resolved(200, HSet(NoHeaders, "content-length", NumToStr(Len(b))), b) : b \in Bodies}
  \cup (IF range = null THEN {}
        ELSE {Resolved(206,
                HSet(HSet(NoHeaders, "content-length", NumToStr(Len(b))),
                     "content-range", ContentRange(range)),
                b) : b \in Bodies})
  \cup {Resolved(404, NoHeaders, <<>>)}
  \cup {Rejected(e) : e \in TimeoutErrors \cup NetworkErrors}

InitGet ==
  /\ variant \in {"chunk", "global", "plain"}
  /\ cache = <<>>
  /\ currentSize = 0
  /\ now = 0
  /\ held = none
  /\ lastSet = none
  /\ last = [op |-> "none", n |-> 0]
  /\ call = none
  /\ ret = none
  /\ pc = "idle"

\* the upstream GET calls among fetches
Gets(fetches) == {i \in 1..Len(fetches) : fetches[i].method = "GET"}

\* the handler of req has run to step st at time t; head and upstream are
\* the answers its HEAD and GET fetches have had so far
Advance(st, req, head, upstream, t) ==
  /\ cache' = st.cache
  /\ currentSize' = st.currentSize
  /\ now' = t
  /\ pc' = st.pc
  /\ ret' = st.ret
  /\ call' = [req |-> req, range |-> st.range, fetches |-> st.fetches,
              sets |-> st.sets, probedAt |-> st.probedAt,
              setAt |-> IF st.sets > 0 THEN t ELSE -1,
              head |-> head, upstream |-> upstream]
  /\ UNCHANGED <<variant, held, lastSet>>

\* a request arrives once the one before it is answered
Arrive ==
  /\ pc \in {"idle", "done"}
  /\ last.n < MaxRequests
  /\ last' = IF pc = "done" /\ call.sets > 0
             THEN [op |-> "cached", n |-> last.n + 1, req |-> call.req,
                   body |-> ret.body, setAt |-> call.setAt,
                   gets |-> Cardinality(Gets(call.fetches)),
                   status |-> ret.status, headers |-> ret.headers]
             ELSE [op |-> "none", n |-> last.n + 1]

ChunkRequest ==
  /\ variant = "chunk"
  /\ Arrive
  /\ \E req \in Requests, t \in Times :
       Advance(ChunkStart(cache, currentSize, req), req, none, none, t)

ChunkHeadReply ==
  /\ variant = "chunk"
  /\ pc = "head"
  /\ \E head \in HeadReplies, t \in Times :
       /\ Advance(IF head.threw
                  THEN Done(cache, currentSize, null, call.fetches, -1,
                            ChunkCatch(head.error))
                  ELSE ChunkAfterHead(cache, currentSize, t, call.req,
                                      call.fetches, head),
                  call.req, head, none, t)
       /\ UNCHANGED last

ChunkGetReply ==
  /\ variant = "chunk"
  /\ pc = "get"
  /\ \E upstream \in GetReplies(call.range), t \in Times :
       /\ LET f == ChunkFinish(cache, currentSize, t, call.req.bookId,
                               Get(call.req.params, "url"), call.range, upstream)
          IN Advance(IF upstream.threw
                     THEN Done(cache, currentSize, call.range, call.fetches,
                               call.probedAt, ChunkCatch(upstream.error))
                     ELSE Step("done", f.cache, f.currentSize, call.range,
                               call.fetches, f.sets, call.probedAt, f.ret),
                     call.req, call.head, upstream, t)
       /\ UNCHANGED last

GlobalRequest ==
  /\ variant = "global"
  /\ Arrive
  /\ \E req \in Requests, t \in Times :
       Advance(GlobalStart(cache, currentSize, t, req), req, none, none, t)

GlobalHeadReply ==
  /\ variant = "global"
  /\ pc = "head"
  /\ \E headResponse \in HeadReplies, t \in Times :
       /\ Advance(IF headResponse.threw
                  THEN Done(cache, currentSize, null, call.fetches, -1,
                            GlobalCatch(headResponse.error))
                  ELSE GlobalAfterHead(cache, currentSize, t, call.req,
                                       call.fetches, headResponse),
                  call.req, headResponse, none, t)
       /\ UNCHANGED last

GlobalGetReply ==
  /\ variant = "global"
  /\ pc = "get"
  /\ \E upstream \in GetReplies(call.range), t \in Times :
       /\ LET f == GlobalFinish(cache, currentSize, t,
                                Get(call.req.params, "url"), call.range, upstream)
          IN Advance(IF upstream.threw
                     THEN Done(cache, currentSize, call.range, call.fetches,
                               call.probedAt, GlobalCatch(upstream.error))
                     ELSE Step("done", f.cache, f.currentSize, call.range,
                               call.fetches, f.sets, call.probedAt, f.ret),
                     call.req, call.head, upstream, t)
       /\ UNCHANGED last

PlainRequest ==
  /\ variant = "plain"
  /\ Arrive
  /\ \E req \in Requests, t \in Times :
       Advance(PlainStart(cache, currentSize, req), req, none, none, t)

\* plain route: the fetch has no timeout and is awaited outside any try, so
\* a rejection leaves the handler as an uncaught error, which the framework
\* answers with 500
PlainGetReply ==
  /\ variant = "plain"
  /\ pc = "get"
  /\ \E upstream \in GetReplies(null) \ {Rejected(e) : e \in TimeoutErrors},
        t \in Times :
       /\ Advance(Done(cache, currentSize, null, call.fetches, -1,
                       IF upstream.threw THEN TextResponse(500)
                       ELSE PlainFinish(upstream)),
                  call.req, none, upstream, t)
       /\ UNCHANGED last

NextGet ==
  \/ ChunkRequest \/ ChunkHeadReply \/ ChunkGetReply
  \/ GlobalRequest \/ GlobalHeadReply \/ GlobalGetReply
  \/ PlainRequest \/ PlainGetReply

SpecGet == InitGet /\ [][NextGet]_vars

(***************************************************************************)
(* Claims about the GET handlers (SpecGet).                                *)
(***************************************************************************)
Answered == pc = "done"

\* the url parameter of the request in call ("" when it has none)
UrlOf(c) == Get(c.req.params, "url")

HasRange(c) == Get(c.req.headers, "range") # <<>>

\* the scheme of u is not https, or its path does not end in .pdf, or u is
\* no URL at all
InvalidUrl(u) ==
  \/ URL(u).threw
  \/ URL(u).protocol # <<"h", "t", "t", "p", "s", ":">>
  \/ ~endsWith(toLowerCase(URL(u).pathname), <<".", "p", "d", "f">>)

\* C13: a GET whose url parameter is missing or invalid is answered 400
\* and makes no upstream call, in every route.
C13_RejectedBeforeFetch ==
  (Answered /\ (UrlOf(call) = <<>> \/ InvalidUrl(UrlOf(call))))
  => (ret.status = 400 /\ call.fetches = <<>>)

\* the urls of requests that each caching route takes for valid
ValidChunkUrls == {u \in ReqUrls : validateSupabasePdfUrl(u)}

ValidGlobalUrls == {u \in ReqUrls : validateUrl(u)}

\* the route in variant takes the url of c for valid
ValidUrl(c) ==
  /\ UrlOf(c) # <<>>
  /\ variant = "chunk" => UrlOf(c) \in ValidChunkUrls
  /\ variant = "global" => UrlOf(c) \in ValidGlobalUrls

\* the HEAD was answered, without success or with a content-length that is
\* 0 or absent
HeadFailed(h) ==
  /\ h # none
  /\ ~h.threw
  /\ ~Ok(h) \/ Get(h.headers, "content-length") \in {<<>>, <<"0">>}

\* this step left the cache as it was
CacheKept == cache' = cache /\ currentSize' = currentSize

\* A step of a caching route: a request with a valid url (one with a Range
\* header, in the global route, when rangedOnly) starts with the HEAD and
\* nothing else; a failed HEAD is answered 502 with no GET and the cache
\* untouched.
HeadFirstStep(rangedOnly) ==
  variant \in {"chunk", "global"} =>
    /\ (/\ pc \in {"idle", "done"}
        /\ ValidUrl(call')
        /\ (rangedOnly /\ variant = "global") => HasRange(call'))
       => (/\ pc' = "head"
           /\ call'.fetches = <<Fetch("HEAD", UrlOf(call'), NoHeaders)>>
           /\ CacheKept)
    /\ (pc = "head" /\ HeadFailed(call'.head))
       => (/\ pc' = "done"
           /\ ret'.status = 502
           /\ Gets(call'.fetches) = {}
           /\ CacheKept)

Returned(upstream, range) ==
  /\ upstream # none
  /\ ~upstream.threw
  /\ upstream.status = 206
  /\ Get(upstream.headers, "content-range")
       = <<"b", "y", "t", "e", "s", " ">> \o NumToStr(range.start) \o <<"-">>
           \o NumToStr(range.end) \o <<"/">> \o NumToStr(range.total)
  /\ Len(upstream.body) = range.end - range.start + 1

RepeatsCached ==
  /\ Answered
  /\ variant \in {"chunk", "global"}
  /\ last.op = "cached"
  /\ last.req = call.req
  /\ ~HasRange(call)
  /\ (IF call.probedAt >= 0 THEN call.probedAt ELSE now) <= last.setAt + ttl

\* the two requests made one upstream GET between them and the second was
\* answered from the cache with the body of the first
ServedFromCache ==
  /\ last.gets = 1
  /\ Gets(call.fetches) = {}
  /\ ret.hit
  /\ ret.status = 200
  /\ ret.body = last.body

C17_HitResponse ==
  (Answered /\ ret.hit) =>
    /\ call.range # null =>
         /\ ret.status = 206
         /\ Get(ret.headers, "content-range")
              = <<"b", "y", "t", "e", "s", " ">> \o NumToStr(call.range.start)
                  \o <<"-">> \o NumToStr(call.range.end) \o <<"/">>
                  \o NumToStr(call.range.total)
         /\ Get(ret.headers, "content-length")
              = NumToStr(call.range.end - call.range.start + 1)
    /\ call.range = null =>
         /\ ret.status = 200
         /\ Get(ret.headers, "content-length") = NumToStr(Len(ret.body))
    /\ "accept-ranges" \in DOMAIN ret.headers
    /\ "cache-control" \in DOMAIN ret.headers
    /\ ret.headers["accept-ranges"] = "bytes"

\* a fetch was rejected for its timeout
TimedOut(reply) ==
  reply # none /\ reply.threw /\ reply.error.name \in {"TimeoutError", "AbortError"}

\* C18: of the caching routes, an upstream GET answered without success or
\* with no bytes gives 502, a full-file body under smallBody bytes that does
\* not start with %PDF gives 422, a HEAD or GET that timed out gives 504.
C18_FixedStatuses ==
  (Answered /\ variant \in {"chunk", "global"}) =>
    /\ (call.upstream # none /\ ~call.upstream.threw) =>
         /\ (~Ok(call.upstream) \/ call.upstream.body = <<>>) => ret.status = 502
         /\ (/\ Ok(call.upstream)
             /\ call.range = null
             /\ call.upstream.body # <<>>
             /\ Len(call.upstream.body) < smallBody
             /\ SubSeq(call.upstream.body, 1, 4) # <<37, 80, 68, 70>>)
            => ret.status = 422
    /\ (TimedOut(call.head) \/ TimedOut(call.upstream)) => ret.status = 504

\* the keys of whole files in the cache of variant
FullKeys ==
  IF variant = "chunk"
  THEN {b \o <<":">> \o u \o <<":", "f", "u", "l", "l">> : b \in BookIds, u \in ReqUrls}
  ELSE ReqUrls

\* C20: every entry under a full-file key holds bytes that start with %PDF.
C20_FullFilesArePdf ==
  \A i \in 1..Len(cache) :
    cache[i].k \in FullKeys => SubSeq(cache[i].data, 1, 4) = <<37, 80, 68, 70>>

\* entry e of one cache is in the other with the same key and bytes
StoredIn(e, c) == \E j \in 1..Len(c) : c[j].k = e.k /\ c[j].data = e.data

\* cache after holds the keys and bytes of cache before, less entries that
\* had expired by t
KeptButExpired(before, after, t) ==
  /\ \A j \in 1..Len(after) : StoredIn(after[j], before)
  /\ \A i \in 1..Len(before) :
       StoredIn(before[i], after) \/ t - before[i].timestamp > ttl

\* the answer c, r of a request is an error that came of its upstream
UpstreamFailure(c, r) ==
  /\ r.status >= 400
  /\ \/ c.head # none /\ (c.head.threw \/ ~Ok(c.head))
     \/ c.upstream # none

\* C19: a request of a caching route that ends in an error response because
\* of its upstream (non-success status, empty body, invalid document,
\* timeout) makes no cache set: none of its steps adds or replaces a cached
\* key or its bytes, and a step removes only entries that have expired.
C19_NoSetOnFailure ==
  [][(/\ variant \in {"chunk", "global"}
      /\ pc' # "done" \/ UpstreamFailure(call', ret'))
     => /\ call'.sets = 0
        /\ KeptButExpired(cache, cache', now')]_vars

C19_Witness ==
  /\ Answered
  /\ variant = "chunk"
  /\ last.op = "cached"
  /\ call.upstream # none
  /\ ~call.upstream.threw
  /\ Ok(call.upstream)
  /\ ret.status = 422
  /\ cache # <<>>

(***************************************************************************)
(* The HEAD handlers of the two caching routes (SpecHead): the existence   *)
(* check of the proxy. The cache holds what GET requests before have left  *)
(* in it.                                                                  *)
(***************************************************************************)
\* a HEAD handler that fetches the file
ChunkHEADStart_Get(c, cs, req) ==
  LET fileUrl == Get(req.params, "url")
  IN IF fileUrl = <<>> THEN Done(c, cs, null, <<>>, -1, TextResponse(400))
     ELSE IF ~validateSupabasePdfUrl(fileUrl)
     THEN Done(c, cs, null, <<>>, -1, TextResponse(400))
     ELSE Step("head", c, cs, null, <<Fetch("GET", fileUrl, NoHeaders)>>, 0, -1, none)

\* book-scoped route: HEAD up to its fetch
ChunkHEADStart(c, cs, req) ==
  LET fileUrl == Get(req.params, "url")
  IN IF fileUrl = <<>> THEN Done(c, cs, null, <<>>, -1, TextResponse(400))
     ELSE IF ~validateSupabasePdfUrl(fileUrl)
     THEN Done(c, cs, null, <<>>, -1, TextResponse(400))
     ELSE Step("head", c, cs, null, <<Fetch("HEAD", fileUrl, NoHeaders)>>, 0, -1, none)

\* book-scoped route: HEAD from the upstream's answer on
ChunkHEADFinish(c, cs, fetches, upstream) ==
  Done(c, cs, null, fetches, -1,
       IF upstream.threw THEN TextResponse(500)
       ELSE TextResponse(IF Ok(upstream) THEN 200 ELSE upstream.status))

\* global route: HEAD up to its fetch
GlobalHEADStart(c, cs, req) ==
  LET targetUrl == Get(req.params, "url")
  IN IF targetUrl = <<>> THEN Done(c, cs, null, <<>>, -1, TextResponse(400))
     ELSE IF ~validateUrl(targetUrl)
     THEN Done(c, cs, null, <<>>, -1, TextResponse(400))
     ELSE Step("head", c, cs, null, <<Fetch("HEAD", targetUrl, NoHeaders)>>, 0, -1, none)

\* global route: HEAD from the upstream's answer on
GlobalHEADFinish(c, cs, fetches, upstream) ==
  Done(c, cs, null, fetches, -1,
       IF upstream.threw THEN TextResponse(500)
       ELSE IF ~Ok(upstream) THEN TextResponse(upstream.status)
       ELSE Response(200,
              HSet(HSet(HSet(NoHeaders, "x-cache-stats", getStats(c, cs)),
                        "x-service", "PDF-Proxy"),
                   "content-type", "application/pdf"),
              <<>>, FALSE))

\* the caches a HEAD request can find: empty, or holding the file of UrlA
\* that a GET stored at time 0
HeadCaches ==
  {<<>>,
   <<NewEntry(IF variant = "chunk" THEN key(BookA, UrlA, null)
              ELSE generateKey(UrlA, null), PdfBody, 0)>>}

InitHead ==
  /\ variant \in {"chunk", "global"}
  /\ cache \in HeadCaches
  /\ currentSize = SumSizes(cache)
  /\ now = 0
  /\ held = none
  /\ lastSet = none
  /\ last = [op |-> "none", n |-> 0]
  /\ call = none
  /\ ret = none
  /\ pc = "idle"

\* a HEAD request arrives once the one before it is answered
ArriveHead ==
  /\ pc \in {"idle", "done"}
  /\ last.n < MaxRequests
  /\ last' = [op |-> "none", n |-> last.n + 1]

ChunkHEAD ==
  /\ variant = "chunk"
  /\ ArriveHead
  /\ \E req \in Requests, t \in Times :
       Advance(ChunkHEADStart(cache, currentSize, req), req, none, none, t)

ChunkHEADReply ==
  /\ variant = "chunk"
  /\ pc = "head"
  /\ \E upstream \in HeadReplies, t \in Times :
       /\ Advance(ChunkHEADFinish(cache, currentSize, call.fetches, upstream),
                  call.req, upstream, none, t)
       /\ UNCHANGED last

GlobalHEAD ==
  /\ variant = "global"
  /\ ArriveHead
  /\ \E req \in Requests, t \in Times :
       Advance(GlobalHEADStart(cache, currentSize, req), req, none, none, t)

GlobalHEADReply ==
  /\ variant = "global"
  /\ pc = "head"
  /\ \E upstream \in HeadReplies, t \in Times :
       /\ Advance(GlobalHEADFinish(cache, currentSize, call.fetches, upstream),
                  call.req, upstream, none, t)
       /\ UNCHANGED last

NextHead == ChunkHEAD \/ ChunkHEADReply \/ GlobalHEAD \/ GlobalHEADReply

SpecHead == InitHead /\ [][NextHead]_vars

(***************************************************************************)
(* Claims about the HEAD handlers (SpecHead).                              *)
(***************************************************************************)
\* the upstream calls of the HEAD request in c: no GET, and one HEAD when
\* its url is valid, none when it is not
HeadOnly(c) ==
  /\ Gets(c.fetches) = {}
  /\ Len(c.fetches) = (IF ValidUrl(c) THEN 1 ELSE 0)

\* C21 as amended: the proxy's HEAD endpoint validates the url and issues one
\* upstream HEAD and no upstream GET; no step of it calls get or set or
\* changes the cache or currentSize. (The global route does read the cache's
\* statistics into the X-Cache-Stats header of a 200 answer.)
C21_HeadOnly == [][CacheKept /\ HeadOnly(call')]_vars

\* an expired entry is still resident after a HEAD answered 200
C21_Witness ==
  /\ Answered
  /\ ret.status = 200
  /\ Len(call.fetches) = 1
  /\ cache # <<>>
  /\ PDFCache_isExpired(cache[1], now)

\* C21: the HEAD endpoint issues one upstream HEAD and no GET and never
\* reads the cache: its answer is the one it gives with the cache empty.
C21_AsClaimed ==
  Answered =>
    /\ HeadOnly(call)
    /\ ret = IF Len(call.fetches) = 0 THEN TextResponse(400)
             ELSE IF variant = "chunk"
             THEN ChunkHEADFinish(<<>>, 0, call.fetches, call.head).ret
             ELSE GlobalHEADFinish(<<>>, 0, call.fetches, call.head).ret

(***************************************************************************)
(* Claims about set on an oversized buffer (Spec).                         *)
(***************************************************************************)
\* C22: set ends for every buffer and cache state, and when the buffer is
\* larger than maxSize the eviction loop has removed every other entry: the
\* oversized buffer is then the only resident entry.
C22_OversizedAlone ==
  (last.op = "set" /\ Len(last.buf) > maxSize)
  => (Len(cache) = 1 /\ cache[1].k = last.k /\ cache[1].data = last.buf)

(***************************************************************************)
(* Two GET requests of the book-scoped route in flight at once (SpecRace). *)
(* The handlers run on one thread: each action runs one of them from an    *)
(* await to its next, on the cache they share. pc, call and ret hold one   *)
(* value for each request.                                                 *)
(***************************************************************************)
Procs == {1, 2}

\* the requests in flight: for the file of UrlA, whole or its range 0-1
RaceRequests ==
  [bookId : BookIds,
   params : {HSet(NoHeaders, "url", UrlA)},
   headers : {NoHeaders, HSet(NoHeaders, "range", BytesEq \o <<"0", "-", "1">>)}]

\* what the upstream answers their HEAD with
RaceHeadReplies ==
  {Resolved(200, HSet(NoHeaders, "content-length", <<"5">>), <<>>),
   Resolved(404, NoHeaders, <<>>)}

\* what the upstream answers their GET with: the document, two bytes of it,
\* an error
RaceGetReplies(range) ==
  {Resolved(200, HSet(NoHeaders, "content-length", NumToStr(Len(b))), b) :
     b \in {PdfBody, Fill(2, 120)}}
  \cup (IF range = null THEN {}
        ELSE {Resolved(206,
                HSet(HSet(NoHeaders, "content-length", <<"2">>),
                     "content-range", ContentRange(range)),
                Fill(2, 120))})
  \cup {Resolved(404, NoHeaders, <<>>)}

InitRace ==
  /\ variant = "chunk"
  /\ cache = <<>>
  /\ currentSize = 0
  /\ now = 0
  /\ held = none
  /\ lastSet = none
  /\ last = [op |-> "race", both |-> FALSE]
  /\ call = [p \in Procs |-> none]
  /\ ret = [p \in Procs |-> none]
  /\ pc = [p \in Procs |-> "idle"]

\* the handler of request p has run to step st at time t; last.both tells
\* whether both handlers have been waiting for their upstream GET at once
RaceAdvance(p, st, req, head, upstream, t) ==
  /\ cache' = st.cache
  /\ currentSize' = st.currentSize
  /\ now' = t
  /\ pc' = [pc EXCEPT ![p] = st.pc]
  /\ ret' = [ret EXCEPT ![p] = st.ret]
  /\ call' = [call EXCEPT ![p] =
                [req |-> req, range |-> st.range, fetches |-> st.fetches,
                 sets |-> st.sets, probedAt |-> st.probedAt,
                 setAt |-> IF st.sets > 0 THEN t ELSE -1,
                 head |-> head, upstream |-> upstream]]
  /\ last' = [op |-> "race",
              both |-> last.both \/ (\A q \in Procs : pc'[q] = "get")]
  /\ UNCHANGED <<variant, held, lastSet>>

RaceRequest ==
  \E p \in Procs, req \in RaceRequests, t \in Times :
    /\ pc[p] = "idle"
    /\ RaceAdvance(p, ChunkStart(cache, currentSize, req), req, none, none, t)

RaceHeadReply ==
  \E p \in Procs, head \in RaceHeadReplies, t \in Times :
    /\ pc[p] = "head"
    /\ RaceAdvance(p, ChunkAfterHead(cache, currentSize, t, call[p].req,
                                     call[p].fetches, head),
                   call[p].req, head, none, t)

RaceGetReply ==
  \E p \in Procs, t \in Times :
    /\ pc[p] = "get"
    /\ \E upstream \in RaceGetReplies(call[p].range) :
         LET f == ChunkFinish(cache, currentSize, t, call[p].req.bookId,
                              Get(call[p].req.params, "url"), call[p].range,
                              upstream)
         IN RaceAdvance(p, Step("done", f.cache, f.currentSize, call[p].range,
                                call[p].fetches, f.sets, call[p].probedAt, f.ret),
                        call[p].req, call[p].head, upstream, t)

NextRace == RaceRequest \/ RaceHeadReply \/ RaceGetReply

SpecRace == InitRace /\ [][NextRace]_vars

(***************************************************************************)
(* Claims about concurrent requests (SpecRace).                            *)
(***************************************************************************)
\* both requests missed on one key while the other was in flight, and both
\* have set their body and answered
BothSet ==
  /\ \A p \in Procs : pc[p] = "done" /\ call[p].sets = 1
  /\ last.both
  /\ call[1].range = call[2].range

\* the entries of c under key k
Under(c, k) == {i \in 1..Len(c) : c[i].k = k}

\* C23: when two concurrent GETs miss on one key, both fetch and both set;
\* once both are done the cache holds exactly one entry for that key and
\* currentSize is the sum of the sizes of the resident entries.
C23_RaceKeepsSize ==
  BothSet =>
    /\ \A p \in Procs : Cardinality(Gets(call[p].fetches)) = 1
    /\ Cardinality(Under(cache, key(BookA, UrlA, call[1].range))) = 1
    /\ currentSize = SumSizes(cache)

(***************************************************************************)
(* Further claims about the GET handlers (SpecGet).                        *)
(***************************************************************************)
\* the request in call repeats the one before it, which missed and filled
\* the cache, and is answered from the cache
HitAfterMiss ==
  /\ Answered
  /\ variant \in {"chunk", "global"}
  /\ last.op = "cached"
  /\ last.req = call.req
  /\ ret.hit

\* C24: for one request the response of the miss that filled the cache and
\* the response of the hit that follows have the same status, the same body
\* length and the same Content-Range and Content-Length, whatever status the
\* upstream answered the miss with.
C24_MissLikeHit ==
  HitAfterMiss =>
    /\ ret.status = last.status
    /\ Len(ret.body) = Len(last.body)
    /\ Get(ret.headers, "content-range") = Get(last.headers, "content-range")
    /\ Get(ret.headers, "content-length") = Get(last.headers, "content-length")

\* the upstream HEAD calls among fetches
Heads(fetches) == {i \in 1..Len(fetches) : fetches[i].method = "HEAD"}

\* C25: the proxy is a single-attempt relay: while it handles one GET
\* request, and when it has answered, it has issued at most one upstream
\* HEAD and at most one upstream GET, whatever failed.
C25_SingleAttempt ==
  pc # "idle" =>
    /\ Cardinality(Heads(call.fetches)) <= 1
    /\ Cardinality(Gets(call.fetches)) <= 1

\* a request answered with an error after its HEAD and its GET
C25_Witness ==
  /\ Answered
  /\ Cardinality(Heads(call.fetches)) = 1
  /\ Cardinality(Gets(call.fetches)) = 1
  /\ call.upstream # none
  /\ call.upstream.threw
  /\ ret.status >= 500

\* the HEAD of c was answered with success and a content-length other than 0
HeadOk(c) == c.head # none /\ ~c.head.threw /\ ~HeadFailed(c.head)

\* the Range header of c does not parse against the length its HEAD reported
ParseFailed(c) ==
  LET rangeHeader == Get(c.req.headers, "range")
      contentLength == parseInt(Get(c.head.headers, "content-length")).v
  IN IF variant = "chunk" THEN parseRange(rangeHeader, contentLength) = null
     ELSE parseRangeHeader(rangeHeader, contentLength) = null

\* the key of the whole file of request c in the book-scoped cache
FullKey(c) == key(c.req.bookId, UrlOf(c), null)

\* global route: the request a, come from the HEAD, is answered 416 with no
\* GET, the cache as it was
Refused416(a, r) ==
  /\ pc' = "done"
  /\ r.status = 416
  /\ Gets(a.fetches) = {}
  /\ CacheKept

\* book-scoped route: the request a, come from the HEAD, has probed the
\* cache under its full-file key and is answered from it, or goes on to a GET
\* with no Range header
ServedAsFull(a, r, t) ==
  /\ a.range = null
  /\ a.probedAt = t
  /\ cache' = PDFChunkCache_get(cache, currentSize, t, FullKey(a)).cache
  /\ \/ pc' = "done" /\ r.hit /\ r.status = 200
     \/ /\ pc' = "get"
        /\ a.fetches[Len(a.fetches)] = Fetch("GET", UrlOf(a), NoHeaders)

\* book-scoped route: the body of answer r is stored under the full-file key
FilledAsFull(a, r, c) ==
  \E i \in 1..Len(c) : c[i].k = FullKey(a) /\ c[i].data = r.body

ParseFailureStep ==
  /\ (/\ pc = "head"
      /\ variant \in {"chunk", "global"}
      /\ HasRange(call)
      /\ HeadOk(call')
      /\ ParseFailed(call'))
     => IF variant = "global" THEN Refused416(call', ret')
        ELSE ServedAsFull(call', ret', now')
  /\ (/\ pc = "get"
      /\ variant = "chunk"
      /\ HasRange(call)
      /\ call.range = null
      /\ call'.sets = 1)
     => FilledAsFull(call', ret', cache')

\* C26: when the Range header is present and does not parse, the global
\* route answers 416 with no upstream GET and the cache untouched; the
\* book-scoped route goes on as for a request without Range: it probes the
\* cache under the full-file key, sends no Range header upstream and stores
\* the body under the full-file key.
C26_ParseFailure == [][ParseFailureStep]_vars

\* the book-scoped route has stored a whole file for a request whose Range
\* header did not parse
C26_Witness ==
  /\ Answered
  /\ variant = "chunk"
  /\ Get(call.req.headers, "range") = BytesEq \o <<"x">>
  /\ call.range = null
  /\ call.sets = 1
  /\ ret.status = 200
  /\ \E i \in 1..Len(cache) : cache[i].k = FullKey(call) /\ cache[i].data = PdfBody

(***************************************************************************)
(* Cache keys of whole requests (SpecRequestKey): Init draws two requests, *)
(* each with a url its route takes for valid; one step derives the cache   *)
(* key of each.                                                            *)
(***************************************************************************)
\* a bookId that has a colon in it
BookColon == BookA \o <<":", "h", "t", "t", "p", "s", ":", "/", "/", "h", "/", "a">>

\* a url whose path has a colon in it
UrlColon == <<"h", "t", "t", "p", "s", ":", "/", "/", "h", "/", "a", ":">> \o UrlA

\* urls with a query string
UrlSearch == UrlA \o <<"?">>

UrlSearchColon == UrlA \o <<"?", ":", "0", "-", "1">>

RequestBookIds == {BookA, BookColon}

RequestUrls == {UrlA, UrlColon, UrlSearch, UrlSearchColon}

RequestRanges == {null, RangeRequest(0, 1, 5), RangeRequest(1, 1, 5)}

InitRequestKey ==
  /\ IdleCache
  /\ call \in {c \in [fn : {"key", "generateKey"},
                      bookId1 : RequestBookIds, bookId2 : RequestBookIds,
                      url1 : RequestUrls, url2 : RequestUrls,
                      range1 : RequestRanges, range2 : RequestRanges] :
                 \A u \in {c.url1, c.url2} :
                   IF c.fn = "key" THEN validateSupabasePdfUrl(u) ELSE validateUrl(u)}
  /\ ret = none
  /\ pc = "call"

\* chunkCache's key for each of the two requests
RequestKey ==
  /\ pc = "call"
  /\ call.fn = "key"
  /\ ret' = [key1 |-> key(call.bookId1, call.url1, call.range1),
             key2 |-> key(call.bookId2, call.url2, call.range2)]
  /\ pc' = "done"
  /\ UNCHANGED <<call, cacheVars>>

\* pdfCache's key for each of the two requests (it has no bookId)
RequestGenerateKey ==
  /\ pc = "call"
  /\ call.fn = "generateKey"
  /\ ret' = [key1 |-> generateKey(call.url1, call.range1),
             key2 |-> generateKey(call.url2, call.range2)]
  /\ pc' = "done"
  /\ UNCHANGED <<call, cacheVars>>

NextRequestKey == RequestKey \/ RequestGenerateKey

SpecRequestKey == InitRequestKey /\ [][NextRequestKey]_vars

(***************************************************************************)
(* Claims about the keys of whole requests (SpecRequestKey).               *)
(***************************************************************************)
\* C27: the cache key is injective over whole requests: two requests with
\* valid urls that have the same key have the same scope (bookId, in the
\* book-scoped cache), the same url and the same range (both the full file,
\* or the same start and end).
C27_KeyInjective ==
  (Keyed /\ ret.key1 = ret.key2) =>
    /\ call.fn = "key" => call.bookId1 = call.bookId2
    /\ call.url1 = call.url2
    /\ SameRange(call.range1, call.range2)

(***************************************************************************)
(* Claims about ranged entries of the GET handlers (SpecGet).              *)
(***************************************************************************)
\* the key of range start-end of the file of UrlA in the book-scoped cache
RangedKey(b, start, end) == key(b, UrlA, RangeRequest(start, end, 5))

\* C28: in the book-scoped route every entry stored under a ranged key
\* start-end holds exactly end-start+1 bytes, also when the upstream ignored
\* the Range header and answered 200 with the whole file.
C28_RangedEntryLength ==
  variant = "chunk" =>
    \A i \in 1..Len(cache) : \A b \in BookIds : \A start \in 0..4 : \A end \in start..4 :
      cache[i].k = RangedKey(b, start, end) => Len(cache[i].data) = end - start + 1

\* global route: the key of the ranged request in c
GlobalRangedKey(c) == generateKey(UrlOf(c), c.range)

\* an unexpired entry under key k is resident in c at time t
Resident(c, k, t) ==
  \E i \in 1..Len(c) : c[i].k = k /\ ~PDFCache_isExpired(c[i], t)

\* the sizes of the entries of before whose key is not in after
RECURSIVE GoneSize(_, _)
GoneSize(before, after) ==
  IF before = <<>> THEN 0
  ELSE (IF \E j \in 1..Len(after) : after[j].k = Head(before).k THEN 0
        ELSE Head(before).size)
       + GoneSize(Tail(before), after)

\* the body of answer r is stored under key k in after, and currentSize went
\* from csBefore to csAfter by its size, less the sizes of the entries that
\* went; an entry that k had before is taken off once, or twice when the
\* eviction loop chose it
StoredAndCounted(k, r, before, after, csBefore, csAfter) ==
  /\ \E i \in 1..Len(after) :
       after[i].k = k /\ after[i].data = r.body /\ after[i].size = Len(r.body)
  /\ LET rest == csBefore - GoneSize(before, after) + Len(r.body)
     IN \A j \in 1..Len(before) :
          before[j].k = k
          => csAfter \in {rest - before[j].size, rest - 2 * before[j].size}
  /\ (\A j \in 1..Len(before) : before[j].k # k)
     => csAfter = csBefore - GoneSize(before, after) + Len(r.body)

RangedStep ==
  variant = "global" =>
    /\ (pc = "head" /\ call'.range # null)
       => (/\ pc' = "get"
           /\ Cardinality(Gets(call'.fetches)) = 1
           /\ CacheKept)
    /\ (pc = "get" /\ call.range # null)
       => (/\ ~ret'.hit
           /\ call'.sets = 1
              => StoredAndCounted(GlobalRangedKey(call'), ret', cache, cache',
                                  currentSize, currentSize'))

\* C29: in the global route a request with a Range header that parses is
\* never answered from the cache: it goes to an upstream GET without a cache
\* probe, also when an unexpired entry for its url and range is resident;
\* its body, when the response is a success, is stored under the ranged key
\* and counted in currentSize.
C29_RangedNeverFromCache == [][RangedStep]_vars

\* a ranged request was fetched and stored a second time while the entry of
\* the first was still resident and unexpired
C29_Witness ==
  /\ Answered
  /\ variant = "global"
  /\ call.range # null
  /\ last.op = "cached"
  /\ last.req = call.req
  /\ call.setAt <= last.setAt + ttl
  /\ call.sets = 1
  /\ Cardinality(Gets(call.fetches)) = 1
  /\ Resident(cache, GlobalRangedKey(call), now)

(***************************************************************************)
(* The rate limiter of lib/validation.ts (SpecRate). cache holds            *)
(* rateLimitMap, held the maxRequests and windowMs the caller passes on     *)
(* every call, last the calls made so far with their results.               *)
(***************************************************************************)
Identifiers == {"a", "b"}

\* rateLimitMap.get(key): undefined for an identifier not in the map
NoRecord == [isUndefined |-> TRUE]

\* a limiter that lets a call through when the count has reached the limit
checkRateLimit_OneMore(rateLimitMap, identifier, maxRequests, windowMs, t) ==
  LET record == rateLimitMap[identifier]
  IN IF record = NoRecord \/ t > record.resetTime
     THEN [rateLimitMap |->
             [rateLimitMap EXCEPT ![identifier] = [count |-> 1, resetTime |-> t + windowMs]],
           ret |-> TRUE]
     ELSE IF record.count > maxRequests
     THEN [rateLimitMap |-> rateLimitMap, ret |-> FALSE]
     ELSE [rateLimitMap |->
             [rateLimitMap EXCEPT ![identifier].count = record.count + 1],
           ret |-> TRUE]

\* checkRateLimit(identifier, maxRequests, windowMs) at Date.now() = t
checkRateLimit(rateLimitMap, identifier, maxRequests, windowMs, t) ==
  LET record == rateLimitMap[identifier]
  IN IF record = NoRecord \/ t > record.resetTime
     THEN [rateLimitMap |->
             [rateLimitMap EXCEPT ![identifier] = [count |-> 1, resetTime |-> t + windowMs]],
           ret |-> TRUE]
     ELSE IF record.count >= maxRequests
     THEN [rateLimitMap |-> rateLimitMap, ret |-> FALSE]
     ELSE [rateLimitMap |->
             [rateLimitMap EXCEPT ![identifier].count = record.count + 1],
           ret |-> TRUE]

InitRate ==
  /\ variant = "rate"
  /\ cache = [id \in Identifiers |-> NoRecord]
  /\ currentSize = 0
  /\ now = 0
  /\ held \in [maxRequests : 0..MaxLimit, windowMs : 1..MaxWindow]
  /\ lastSet = none
  /\ last = <<>>
  /\ call = none
  /\ ret = none
  /\ pc = "rate"

\* one call of checkRateLimit, at the time of the call before it or later
CheckRateLimit ==
  /\ pc = "rate"
  /\ Len(last) < MaxCalls
  /\ \E identifier \in Identifiers, t \in now..MaxTime :
       LET r == checkRateLimit(cache, identifier, held.maxRequests, held.windowMs, t)
       IN /\ cache' = r.rateLimitMap
          /\ ret' = r.ret
          /\ now' = t
          /\ call' = [identifier |-> identifier, now |-> t]
          /\ last' = Append(last, [identifier |-> identifier, now |-> t, ret |-> r.ret])
  /\ UNCHANGED <<variant, currentSize, held, lastSet, pc>>

NextRate == CheckRateLimit

SpecRate == InitRate /\ [][NextRate]_vars

(***************************************************************************)
(* Claims about the rate limiter (SpecRate).                               *)
(***************************************************************************)
\* The window that the calls h leave identifier id in: n is the number of
\* its calls since the window started, resetTime the window's end. A call
\* starts a window when id has none or the clock has passed resetTime.
RECURSIVE WindowOf(_, _, _)
WindowOf(h, id, windowMs) ==
  IF h = <<>> THEN [n |-> 0, resetTime |-> -1]
  ELSE LET before == WindowOf(SubSeq(h, 1, Len(h) - 1), id, windowMs)
           c == h[Len(h)]
       IN IF c.identifier # id THEN before
          ELSE IF before.n = 0 \/ c.now > before.resetTime
          THEN [n |-> 1, resetTime |-> c.now + windowMs]
          ELSE [n |-> before.n + 1, resetTime |-> before.resetTime]

\* the place of call i of h among the calls of its identifier in its window
PlaceInWindow(h, i, windowMs) ==
  WindowOf(SubSeq(h, 1, i), h[i].identifier, windowMs).n

Min(a, b) == IF a < b THEN a ELSE b

\* Every call so far returned true exactly when it was among the first
\* maxRequests of its identifier in its window; each identifier's record
\* counts the calls let through in its window and holds the window's end,
\* whatever calls were made for the other identifier.
RateLimited(h, maxRequests, windowMs) ==
  /\ \A i \in 1..Len(h) : h[i].ret = (PlaceInWindow(h, i, windowMs) <= maxRequests)
  /\ \A id \in Identifiers :
       LET w == WindowOf(h, id, windowMs)
       IN cache[id] = IF w.n = 0 THEN NoRecord
                      ELSE [count |-> Min(w.n, maxRequests), resetTime |-> w.resetTime]

\* C30 as amended: for maxRequests of 1 or more, checkRateLimit admits at
\* most maxRequests calls per identifier per window: from a window's start
\* until the clock passes its resetTime exactly the first maxRequests calls
\* of an identifier return true and the later ones false, leaving the record
\* as it is; the first call after resetTime returns true and starts a window
\* with count 1; calls for one identifier never change another's record.
C30_RateLimited ==
  held.maxRequests >= 1 => RateLimited(last, held.maxRequests, held.windowMs)

\* a call was refused and the next call of that identifier, past resetTime,
\* let through
C30_Witness ==
  /\ held.maxRequests >= 1
  /\ Len(last) >= 2
  /\ \E i \in 1..(Len(last) - 1) :
       /\ ~last[i].ret
       /\ last[Len(last)].identifier = last[i].identifier
       /\ last[Len(last)].ret
       /\ cache[last[i].identifier].count = 1
  /\ cache["b"] # NoRecord

\* C30: the same for every maxRequests, 0 included.
C30_AsClaimed == RateLimited(last, held.maxRequests, held.windowMs)

====
